---- MODULE Spec2Model ----
(***************************************************************************)
(* CareCircle cache API (Express + SQLite) and its read-through ledger     *)
(* fallback.  The cache tables are functions from primary key to row; the  *)
(* request handlers are actions; JavaScript values are tagged records so   *)
(* that null, undefined, strings and numbers stay distinct, and strings    *)
(* are sequences of one-character strings so that trim() and min(1) are    *)
(* computed rather than assumed.                                           *)
(***************************************************************************)
EXTENDS Integers, Sequences, FiniteSets, TLC

VARIABLES
    dbOpen,      \* the module-level `db` handle is defined (openDb succeeded)
    circles,     \* table circles: id -> row
    members,     \* table members: the set of its rows
    tasks,       \* table tasks: id -> row
    invitations, \* table invitations: token -> row
    taskColumns, \* column names of table tasks in the opened database file
    now,         \* last value returned by Date.now()
    res,         \* response sent by the last synchronous handler
    reads,       \* in-flight GET /circles/:id requests: request -> record
    contractHash,\* process.env.CONTRACT_HASH is set
    req,         \* the request the last handler step ran on (the server's request log)
    hist,        \* history variable: what the properties need to know of earlier steps
    app,         \* state and timers of the App component in one browser tab
    ledger       \* entities whose creating deploy succeeded on the ledger

vars == <<dbOpen, circles, members, tasks, invitations, taskColumns, now, res, reads, contractHash, req, hist,
          app, ledger>>

\* ------------------------------------------------------------------ bounds
MaxCircleId == 2
MaxTaskId == 1
MaxTime == 1
MaxReads == 2

CircleIds == 1..MaxCircleId
TaskIds == 1..MaxTaskId

\* ------------------------------------------------------- JavaScript values
Null == [t |-> "null"]
Undefined == [t |-> "undefined"]
Str(s) == [t |-> "str", s |-> s]
Num(n) == [t |-> "num", n |-> n]
Bool(b) == [t |-> "bool", b |-> b]

\* one-character string
S1(c) == Str(<<c>>)

IsStr(v) == v.t = "str"
IsNum(v) == v.t = "num"
IsBool(v) == v.t = "bool"

\* JavaScript `a ?? d`
Nullish(a, d) == IF a = Null \/ a = Undefined THEN d ELSE a

\* JavaScript truthiness of the values used here
Truthy(v) ==
    CASE v.t = "null" -> FALSE
      [] v.t = "undefined" -> FALSE
      [] v.t = "str" -> Len(v.s) > 0
      [] v.t = "num" -> v.n # 0
      [] v.t = "bool" -> v.b

\* SQL COALESCE(a, b)
Coalesce(a, b) == IF a # Null THEN a ELSE b

\* ------------------------------------------------------------ zod schemas
\* z.number().int().positive()
ZPosInt(v) == IsNum(v) /\ v.n > 0
\* z.string().min(1)
ZStrMin1(v) == IsStr(v) /\ Len(v.s) >= 1
\* z.string().optional()
ZStrOpt(v) == IsStr(v) \/ v = Undefined
\* z.string().nullable().optional()
ZStrNullOpt(v) == IsStr(v) \/ v = Null \/ v = Undefined

\* ------------------------------------------------------------------ clock
\* Date.now(): a reading of the wall clock, never before the previous one
Clock == now..MaxTime

\* ---------------------------------------------------------------- tables
NoRows == [k \in {} |-> Null]

\* no request handled yet
NoReq == [op |-> "none"]
NoRes == [status |-> 0, body |-> Null]
NoHist == [repeat |-> FALSE, name |-> NoRows, is_owner |-> NoRows, healed |-> {}, accepts |-> NoRows]

\* the App component after its first render: no circle loaded, empty task
\* and member lists, the auto-refresh effect ran with circle?.id undefined
\* and returned at once, nothing in flight
NoApp ==
    [circle |-> Null, tasks |-> <<>>, members |-> <<>>, busy |-> FALSE, deps |-> Undefined,
     intervals |-> <<>>, refreshes |-> <<>>, event |-> NoReq]

\* INSERT of a row under a key that is not in the table
Put(tbl, k, row) == [x \in DOMAIN tbl \cup {k} |-> IF x = k THEN row ELSE tbl[x]]

\* ------------------------------------------------------ POST /circles/upsert
CircleSchemaOkNoNameMutant(input) ==
    /\ ZPosInt(input.id)
    /\ ZStrMin1(input.owner)
    /\ ZStrOpt(input.wallet_key)
    /\ ZStrNullOpt(input.tx_hash)
CircleSchemaOk(input) ==
    /\ ZPosInt(input.id)
    /\ ZStrMin1(input.name)
    /\ ZStrMin1(input.owner)
    /\ ZStrOpt(input.wallet_key)
    /\ ZStrNullOpt(input.tx_hash)

\* the bound parameters of the INSERT: the row `excluded`
CircleValues(input, ts) ==
    [id |-> input.id.n,
     name |-> input.name,
     owner |-> input.owner,
     wallet_key |-> Nullish(input.wallet_key, input.owner),
     tx_hash |-> Nullish(input.tx_hash, Null),
     created_at |-> ts]

\* ON CONFLICT(id) DO UPDATE SET ...
CircleOnConflictTxMutant(old, ex) ==
    [old EXCEPT !.name = ex.name,
                !.owner = ex.owner,
                !.wallet_key = Coalesce(ex.wallet_key, old.wallet_key),
                !.tx_hash = ex.tx_hash]
CircleOnConflictCreatedMutant(old, ex) ==
    [old EXCEPT !.name = ex.name,
                !.owner = ex.owner,
                !.wallet_key = Coalesce(ex.wallet_key, old.wallet_key),
                !.tx_hash = Coalesce(ex.tx_hash, old.tx_hash),
                !.created_at = ex.created_at]
CircleOnConflict(old, ex) ==
    [old EXCEPT !.name = ex.name,
                !.owner = ex.owner,
                !.wallet_key = Coalesce(ex.wallet_key, old.wallet_key),
                !.tx_hash = Coalesce(ex.tx_hash, old.tx_hash)]

SqlUpsertCircleReplaceMutant(tbl, ex) == Put(tbl, ex.id, ex)
SqlUpsertCircle(tbl, ex) ==
    IF ex.id \in DOMAIN tbl
    THEN [tbl EXCEPT ![ex.id] = CircleOnConflict(tbl[ex.id], ex)]
    ELSE Put(tbl, ex.id, ex)

\* the handler, lines 264-338
UpsertCircle(input) ==
    /\ req' = [op |-> "upsertCircle", input |-> input]
    /\ hist' = [hist EXCEPT !.repeat = (req' = req /\ res.status = 200)]
    /\ UNCHANGED <<invitations, dbOpen, members, tasks, taskColumns, reads, contractHash>>
    /\ UNCHANGED <<app, ledger>>
    /\ IF ~dbOpen
       THEN /\ res' = [status |-> 503, body |-> Null]
            /\ UNCHANGED <<circles, now>>
       ELSE IF ~CircleSchemaOk(input)
       THEN /\ res' = [status |-> 400, body |-> Null]
            /\ UNCHANGED <<circles, now>>
       ELSE \E ts \in Clock :
            /\ now' = ts
            /\ circles' = SqlUpsertCircle(circles, CircleValues(input, ts))
            /\ res' = [status |-> 200,
                       body |-> [ok |-> TRUE, id |-> input.id.n, circle |-> circles'[input.id.n]]]

\* ------------------------------------------------------------ seedDemoData
DemoCircleId == 1
OWNER_ADDR == <<"0", "1", "a", "5">>

\* the demo circle; its name and its tx_hash are shortened
SeedCircles ==
    Put(NoRows, DemoCircleId,
        [id |-> DemoCircleId, name |-> Str(<<"M", "o", "m">>), owner |-> Str(OWNER_ADDR),
         wallet_key |-> Str(OWNER_ADDR), tx_hash |-> Str(<<"d", "e", "m", "o">>), created_at |-> 0])

\* ------------------------------------------------- circle upsert requests
\* request bodies: for every id, two name/owner pairs with tx_hash absent,
\* null or given and no wallet_key; one body with a wallet_key; and bodies
\* that fail the schema
CircleInputs ==
    { [id |-> Num(i), name |-> S1("A"), owner |-> S1("X"), wallet_key |-> Undefined, tx_hash |-> h] :
        i \in CircleIds, h \in {Undefined, Null, S1("h")} }
    \cup
    { [id |-> Num(i), name |-> no[1], owner |-> no[2], wallet_key |-> Undefined, tx_hash |-> Undefined] :
        i \in CircleIds, no \in {<<S1("A"), S1("X")>>, <<S1("B"), S1("Y")>>} }
    \cup
    { [id |-> Num(i), name |-> S1("A"), owner |-> S1("X"), wallet_key |-> S1("W"), tx_hash |-> Undefined] :
        i \in CircleIds }
    \cup
    { [id |-> Num(0), name |-> S1("A"), owner |-> S1("X"), wallet_key |-> Undefined, tx_hash |-> Null],
      [id |-> Num(1), name |-> S1("A"), owner |-> S1("X"), wallet_key |-> Null, tx_hash |-> S1("h")] }


\* state after module load: openDb succeeded or threw; seedDemoData ran
\* unless the process runs on Vercel
InitCircle ==
    /\ dbOpen \in BOOLEAN
    /\ circles \in IF dbOpen THEN {NoRows, SeedCircles} ELSE {NoRows}
    /\ members = NoRows
    /\ tasks = NoRows
    /\ taskColumns = {}
    /\ invitations = NoRows
    /\ now = 0
    /\ res = NoRes
    /\ reads = NoRows
    /\ contractHash = FALSE
    /\ req = NoReq
    /\ app = NoApp
    /\ ledger = {}
    /\ hist = NoHist

NextCircle == \E input \in CircleInputs : UpsertCircle(input)

SpecCircle == InitCircle /\ [][NextCircle]_vars

\* ------------------------------------------------------ POST /members/upsert
\* z.boolean().optional()
ZBoolOpt(v) == IsBool(v) \/ v = Undefined

MemberSchemaOk(input) ==
    /\ ZPosInt(input.circle_id)
    /\ ZStrMin1(input.address)
    /\ ZStrOpt(input.name)
    /\ ZBoolOpt(input.is_owner)
    /\ ZStrNullOpt(input.tx_hash)

\* the bound parameters of the INSERT: the row `excluded`
MemberValues(input, ts) ==
    [circle_id |-> input.circle_id.n,
     address |-> input.address,
     name |-> Nullish(input.name, Null),
     is_owner |-> IF Truthy(input.is_owner) THEN 1 ELSE 0,
     tx_hash |-> Nullish(input.tx_hash, Null),
     joined_at |-> ts]

\* ON CONFLICT(circle_id, address) DO UPDATE SET ...
MemberOnConflictNameMutant(old, ex) ==
    [old EXCEPT !.name = ex.name,
                !.is_owner = ex.is_owner,
                !.tx_hash = Coalesce(ex.tx_hash, old.tx_hash)]
MemberOnConflict(old, ex) ==
    [old EXCEPT !.name = Coalesce(ex.name, old.name),
                !.is_owner = ex.is_owner,
                !.tx_hash = Coalesce(ex.tx_hash, old.tx_hash)]

\* PRIMARY KEY (circle_id, address), the conflict target of the upsert
MemberKey(r) == <<r.circle_id, r.address>>

\* the table is a set of rows; the statement updates the row that conflicts
\* on the primary key, or inserts
SqlUpsertMember(rows, ex) ==
    LET hit == {r \in rows : MemberKey(r) = MemberKey(ex)}
    IN IF hit = {}
       THEN rows \cup {ex}
       ELSE (rows \ hit) \cup {MemberOnConflict(r, ex) : r \in hit}

\* history: per key, the last string given as name (or what the row was
\* seeded with) and the is_owner flag of the last call (absent counts as false)
MemberHistory(h, input) ==
    LET k == <<input.circle_id.n, input.address>>
        nm == IF IsStr(input.name) THEN input.name
              ELSE IF k \in DOMAIN h.name THEN h.name[k] ELSE Null
        ow == IF input.is_owner = Bool(TRUE) THEN 1 ELSE 0
    IN [h EXCEPT !.name = Put(h.name, k, nm), !.is_owner = Put(h.is_owner, k, ow)]

\* the handler, lines 641-673; `db` is used unchecked, so an undefined
\* handle throws inside the try block and is answered like a schema error
UpsertMember(input) ==
    /\ req' = [op |-> "upsertMember", input |-> input]
    /\ UNCHANGED <<invitations, dbOpen, circles, tasks, taskColumns, reads, contractHash>>
    /\ UNCHANGED <<app, ledger>>
    /\ IF ~MemberSchemaOk(input) \/ ~dbOpen
       THEN /\ res' = [status |-> 400, body |-> Null]
            /\ UNCHANGED <<members, now, hist>>
       ELSE \E ts \in Clock :
            /\ now' = ts
            /\ members' = SqlUpsertMember(members, MemberValues(input, ts))
            /\ hist' = MemberHistory(hist, input)
            /\ res' = [status |-> 200, body |-> [ok |-> TRUE]]

\* seedDemoData, members
MEMBER1_ADDR == <<"0", "2", "b", "6">>
MEMBER2_ADDR == <<"0", "1", "c", "7">>
SeedMembers ==
    LET SeedMember(addr, name, isOwner) ==
            [circle_id |-> DemoCircleId, address |-> Str(addr), name |-> Str(name),
             is_owner |-> isOwner, tx_hash |-> Null, joined_at |-> 0]
    IN { SeedMember(OWNER_ADDR, <<"S", "a", "r", "a", "h">>, 1),
         SeedMember(MEMBER1_ADDR, <<"M", "i", "c", "h", "a", "e", "l">>, 0),
         SeedMember(MEMBER2_ADDR, <<"E", "m", "i", "l", "y">>, 0) }

\* request bodies: one address per circle id, name absent, empty or given,
\* is_owner absent, false or true; and bodies that fail the schema
MemberInputs ==
    { [circle_id |-> Num(i), address |-> Str(MEMBER1_ADDR), name |-> n, is_owner |-> Undefined,
       tx_hash |-> Undefined] :
        i \in CircleIds, n \in {Undefined, Str(<<>>), S1("N")} }
    \cup
    { [circle_id |-> Num(i), address |-> Str(MEMBER1_ADDR), name |-> Undefined, is_owner |-> Bool(TRUE),
       tx_hash |-> Undefined] : i \in CircleIds }
    \cup
    { [circle_id |-> Num(1), address |-> Str(MEMBER1_ADDR), name |-> Null, is_owner |-> Bool(FALSE),
       tx_hash |-> S1("h")],
      [circle_id |-> Num(1), address |-> Str(MEMBER1_ADDR), name |-> S1("N"), is_owner |-> Bool(FALSE),
       tx_hash |-> S1("h")] }

\* the history of a freshly seeded table: what seedDemoData wrote
HistoryOf(rows) ==
    [NoHist EXCEPT
       !.name = [k \in {MemberKey(r) : r \in rows} |-> (CHOOSE r \in rows : MemberKey(r) = k).name],
       !.is_owner = [k \in {MemberKey(r) : r \in rows} |-> (CHOOSE r \in rows : MemberKey(r) = k).is_owner]]

InitMember ==
    /\ dbOpen \in BOOLEAN
    /\ circles = IF dbOpen THEN SeedCircles ELSE NoRows
    /\ members \in IF dbOpen THEN {{}, SeedMembers} ELSE {{}}
    /\ tasks = NoRows
    /\ taskColumns = {}
    /\ invitations = NoRows
    /\ now = 0
    /\ res = NoRes
    /\ reads = NoRows
    /\ contractHash = FALSE
    /\ req = NoReq
    /\ app = NoApp
    /\ ledger = {}
    /\ hist = HistoryOf(members)

NextMember == \E input \in MemberInputs : UpsertMember(input)

SpecMember == InitMember /\ [][NextMember]_vars

\* -------------------------------------------------------- POST /tasks/upsert
\* z.number().int().min(lo).max(hi).optional()
ZIntRangeOpt(v, lo, hi) == (IsNum(v) /\ v.n >= lo /\ v.n <= hi) \/ v = Undefined
\* z.number().int().nullable().optional()
ZIntNullOpt(v) == IsNum(v) \/ v = Null \/ v = Undefined

TaskSchemaOk(t) ==
    /\ ZPosInt(t.id)
    /\ ZPosInt(t.circle_id)
    /\ ZStrMin1(t.title)
    /\ ZStrNullOpt(t.description)
    /\ ZStrNullOpt(t.assigned_to)
    /\ ZStrMin1(t.created_by)
    /\ ZIntRangeOpt(t.priority, 0, 3)
    /\ ZStrNullOpt(t.payment_amount)
    /\ ZIntRangeOpt(t.request_money, 0, 1)
    /\ ZStrNullOpt(t.payment_tx_hash)
    /\ ZIntRangeOpt(t.rejected, 0, 1)
    /\ IsBool(t.completed)
    /\ ZStrNullOpt(t.completed_by)
    /\ ZIntNullOpt(t.completed_at)
    /\ ZStrNullOpt(t.tx_hash)

\* String.prototype.trim()
WhiteSpace == {" ", "\t", "\n"}
RECURSIVE TrimStart(_)
TrimStart(s) ==
    IF s = <<>> THEN s
    ELSE IF Head(s) \in WhiteSpace THEN TrimStart(Tail(s)) ELSE s
RECURSIVE TrimEnd(_)
TrimEnd(s) ==
    IF s = <<>> THEN s
    ELSE IF s[Len(s)] \in WhiteSpace THEN TrimEnd(SubSeq(s, 1, Len(s) - 1)) ELSE s
Trim(s) == TrimEnd(TrimStart(s))

\* (t.assigned_to && t.assigned_to.trim() !== "") ? t.assigned_to : null
AssignedToValueNoTrimMutant(v) == IF Truthy(v) THEN v ELSE Null
AssignedToValue(v) == IF Truthy(v) /\ Trim(v.s) # <<>> THEN v ELSE Null

\* the bound parameters of the INSERT: the row `excluded`
TaskValues(t, ts) ==
    [id |-> t.id.n,
     circle_id |-> t.circle_id.n,
     title |-> t.title,
     description |-> Nullish(t.description, Null),
     assigned_to |-> AssignedToValue(t.assigned_to),
     created_by |-> t.created_by,
     priority |-> Nullish(t.priority, Num(1)).n,
     payment_amount |-> Nullish(t.payment_amount, Null),
     request_money |-> Nullish(t.request_money, Num(0)),
     payment_tx_hash |-> Nullish(t.payment_tx_hash, Null),
     rejected |-> Nullish(t.rejected, Num(0)),
     completed |-> IF Truthy(t.completed) THEN 1 ELSE 0,
     completed_by |-> Nullish(t.completed_by, Null),
     completed_at |-> Nullish(t.completed_at, Null),
     tx_hash |-> Nullish(t.tx_hash, Null),
     created_at |-> ts]

\* ON CONFLICT(id) DO UPDATE SET ... (circle_id and created_at are not assigned)
TaskOnConflictHashMutant(old, ex) ==
    [old EXCEPT !.title = ex.title,
                !.description = ex.description,
                !.assigned_to = ex.assigned_to,
                !.created_by = ex.created_by,
                !.priority = ex.priority,
                !.payment_amount = ex.payment_amount,
                !.request_money = ex.request_money,
                !.payment_tx_hash = ex.payment_tx_hash,
                !.rejected = Coalesce(ex.rejected, old.rejected),
                !.completed = ex.completed,
                !.completed_by = ex.completed_by,
                !.completed_at = ex.completed_at,
                !.tx_hash = Coalesce(ex.tx_hash, old.tx_hash)]
TaskOnConflict(old, ex) ==
    [old EXCEPT !.title = ex.title,
                !.description = ex.description,
                !.assigned_to = ex.assigned_to,
                !.created_by = ex.created_by,
                !.priority = ex.priority,
                !.payment_amount = ex.payment_amount,
                !.request_money = ex.request_money,
                !.payment_tx_hash = Coalesce(ex.payment_tx_hash, old.payment_tx_hash),
                !.rejected = Coalesce(ex.rejected, old.rejected),
                !.completed = ex.completed,
                !.completed_by = ex.completed_by,
                !.completed_at = ex.completed_at,
                !.tx_hash = Coalesce(ex.tx_hash, old.tx_hash)]

SqlUpsertTask(tbl, ex) ==
    IF ex.id \in DOMAIN tbl
    THEN [tbl EXCEPT ![ex.id] = TaskOnConflict(tbl[ex.id], ex)]
    ELSE Put(tbl, ex.id, ex)

\* columns of table tasks as openDb creates it (CREATE TABLE plus the
\* payment_amount migration), and the columns the upsert statement names
OpenDbTaskColumns ==
    {"id", "circle_id", "title", "description", "assigned_to", "created_by", "priority",
     "completed", "completed_by", "completed_at", "tx_hash", "created_at", "payment_amount"}
UpsertTaskColumns ==
    {"id", "circle_id", "title", "description", "assigned_to", "created_by", "priority",
     "payment_amount", "request_money", "payment_tx_hash", "rejected", "completed",
     "completed_by", "completed_at", "tx_hash", "created_at"}

\* the handler, lines 785-847: a schema error, an undefined `db` and a
\* statement naming a column the table lacks (db.prepare throws) all end in
\* the catch block
UpsertTask(input) ==
    /\ req' = [op |-> "upsertTask", input |-> input]
    /\ hist' = [hist EXCEPT !.repeat = (req' = req /\ res.status = 200)]
    /\ UNCHANGED <<invitations, dbOpen, circles, members, taskColumns, reads, contractHash>>
    /\ UNCHANGED <<app, ledger>>
    /\ IF ~TaskSchemaOk(input) \/ ~dbOpen \/ ~(UpsertTaskColumns \subseteq taskColumns)
       THEN /\ res' = [status |-> 400, body |-> Null]
            /\ UNCHANGED <<tasks, now>>
       ELSE \E ts \in Clock :
            /\ now' = ts
            /\ tasks' = SqlUpsertTask(tasks, TaskValues(input, ts))
            /\ res' = [status |-> 200, body |-> [ok |-> TRUE, id |-> input.id.n]]

\* seedDemoData, tasks: two open ones and two completed a day and half a day
\* before the seeding; the columns the seed does not name are NULL
DayMs == 86400000
HalfDayMs == 43200000
SeedTask(i, title, assignee, prio, done, doneBy, doneAt, tx, created) ==
    [id |-> i, circle_id |-> DemoCircleId, title |-> S1(title), description |-> S1("d"),
     assigned_to |-> Str(assignee), created_by |-> Str(OWNER_ADDR), priority |-> prio,
     payment_amount |-> Null, request_money |-> Null, payment_tx_hash |-> Null, rejected |-> Null,
     completed |-> done, completed_by |-> doneBy, completed_at |-> doneAt, tx_hash |-> tx,
     created_at |-> created]
SeedTasks ==
    LET t1 == SeedTask(1, "P", MEMBER1_ADDR, 2, 0, Null, Null, Null, 0)
        t2 == SeedTask(2, "G", MEMBER2_ADDR, 1, 0, Null, Null, Null, 0)
        t3 == SeedTask(3, "D", OWNER_ADDR, 3, 1, Str(OWNER_ADDR), Num(0 - DayMs),
                       Str(<<"a", "b", "c", "d">>), 0 - DayMs)
        t4 == SeedTask(4, "M", MEMBER1_ADDR, 1, 1, Str(MEMBER1_ADDR), Num(0 - HalfDayMs),
                       Str(<<"e", "f", "1", "2">>), 0 - HalfDayMs)
    IN Put(Put(Put(Put(NoRows, 1, t1), 2, t2), 3, t3), 4, t4)

\* a request body with only the required fields
TaskBody(i) ==
    [id |-> Num(i), circle_id |-> Num(DemoCircleId), title |-> S1("T"), description |-> Undefined,
     assigned_to |-> Undefined, created_by |-> S1("X"), priority |-> Undefined,
     payment_amount |-> Undefined, request_money |-> Undefined, payment_tx_hash |-> Undefined,
     rejected |-> Undefined, completed |-> Bool(FALSE), completed_by |-> Undefined,
     completed_at |-> Undefined, tx_hash |-> Undefined]

\* state after module load for the task handlers: the database file is new
\* (tasks has the columns openDb creates) or already held a tasks table with
\* the columns the upsert names, which CREATE TABLE IF NOT EXISTS leaves as
\* it is; seedDemoData ran or was skipped
InitTask ==
    /\ dbOpen \in BOOLEAN
    /\ taskColumns \in IF dbOpen THEN {OpenDbTaskColumns, OpenDbTaskColumns \cup UpsertTaskColumns}
                                ELSE {{}}
    /\ circles = IF dbOpen THEN SeedCircles ELSE NoRows
    /\ members = {}
    /\ tasks \in IF dbOpen THEN {NoRows, SeedTasks} ELSE {NoRows}
    /\ invitations = NoRows
    /\ now = 0
    /\ res = NoRes
    /\ reads = NoRows
    /\ contractHash = FALSE
    /\ req = NoReq
    /\ app = NoApp
    /\ ledger = {}
    /\ hist = NoHist

\* request bodies that differ in the coalesced fields: tx_hash absent, null
\* or one of two hashes; payment_tx_hash null or a hash; rejected set; and
\* one body that fails the schema
\* (rejected: null)
TaskStickyInputs ==
    { [TaskBody(i) EXCEPT !.tx_hash = h] : i \in TaskIds, h \in {Undefined, Null, S1("h"), S1("k")} }
    \cup { [TaskBody(i) EXCEPT !.payment_tx_hash = ph] : i \in TaskIds, ph \in {Null, S1("p")} }
    \cup { [TaskBody(i) EXCEPT !.rejected = Num(1)] : i \in TaskIds }
    \cup { [TaskBody(1) EXCEPT !.rejected = Null] }

NextTaskSticky == \E input \in TaskStickyInputs : UpsertTask(input)

SpecTaskSticky == InitTask /\ [][NextTaskSticky]_vars

\* request bodies that differ in assigned_to (absent, null, empty, blank,
\* padded, plain) or in the completion fields
TaskFieldInputs ==
    { [TaskBody(i) EXCEPT !.assigned_to = a] :
        i \in TaskIds,
        a \in {Undefined, Null, Str(<<>>), Str(<<" ">>), Str(<<" ", "\t">>), Str(<<" ", "a", " ">>),
               S1("a")} }
    \cup
    { [TaskBody(i) EXCEPT !.completed = c, !.completed_by = b, !.completed_at = at] :
        i \in TaskIds, c \in {Bool(FALSE), Bool(TRUE)}, b \in {Undefined, S1("X")},
        at \in {Undefined, Num(1)} }
    \cup { [TaskBody(1) EXCEPT !.completed = Undefined] }

NextTaskField == \E input \in TaskFieldInputs : UpsertTask(input)

SpecTaskField == InitTask /\ [][NextTaskField]_vars

\* ----------------------------------------------------------- GET /circles/:id
\* Number(req.params.id) when the path segment is not numeric
NaN == [t |-> "nan"]

\* !id || isNaN(id)
BadCircleId(v) == v = NaN \/ ~Truthy(v)

\* id.toString() for a non-negative integer
Digits == <<"0", "1", "2", "3", "4", "5", "6", "7", "8", "9">>
RECURSIVE NumToString(_)
NumToString(n) == IF n < 10 THEN <<Digits[n + 1]>> ELSE NumToString(n \div 10) \o <<Digits[(n % 10) + 1]>>

\* a || b
Or(a, b) == IF Truthy(a) THEN a ELSE b

\* parsed?.parsed?.name || parsed?.name || `Circle ${id}`
ChainName(cd, id) == Or(Or(cd.parsed.name, cd.name), Str(<<"C", "i", "r", "c", "l", "e", " ">> \o NumToString(id)))
\* parsed?.parsed?.owner || parsed?.owner || ""
ChainOwnerDefaultMutant(cd) == Or(Or(cd.parsed.owner, cd.owner), Str(<<"?">>))
ChainOwner(cd) == Or(Or(cd.parsed.owner, cd.owner), Str(<<>>))

\* the bound parameters of the self-healing INSERT
HealValues(id, cd, ts) ==
    [id |-> id, name |-> ChainName(cd, id), owner |-> ChainOwner(cd),
     wallet_key |-> ChainOwner(cd), tx_hash |-> Null, created_at |-> ts]

\* its ON CONFLICT(id) DO UPDATE SET clause, which leaves tx_hash alone
HealOnConflict(old, ex) ==
    [old EXCEPT !.name = ex.name,
                !.owner = ex.owner,
                !.wallet_key = Coalesce(ex.wallet_key, old.wallet_key)]

SqlHealCircleSkipMutant(tbl, ex) == tbl
SqlHealCircle(tbl, ex) ==
    IF ex.id \in DOMAIN tbl
    THEN [tbl EXCEPT ![ex.id] = HealOnConflict(tbl[ex.id], ex)]
    ELSE Put(tbl, ex.id, ex)

\* what `await response.json()` can yield: an RPC error reply, a reply
\* without stored value, or a CLValue carrying name and owner under
\* `parsed`, at top level, an owner without a name, or no owner
ChainValues ==
    LET NoField == [name |-> Undefined, owner |-> Undefined]
    IN { [parsed |-> [name |-> S1("L"), owner |-> S1("O")], name |-> Undefined, owner |-> Undefined],
         [parsed |-> NoField, name |-> S1("L"), owner |-> S1("O")],
         [parsed |-> NoField, name |-> Undefined, owner |-> S1("O")],
         [parsed |-> NoField, name |-> S1("L"), owner |-> Undefined] }
RpcReplies ==
    { [error |-> TRUE, chainData |-> Undefined], [error |-> FALSE, chainData |-> Undefined] }
    \cup { [error |-> FALSE, chainData |-> cd] : cd \in ChainValues }

\* path parameters after Number(): the circle ids, 0 and NaN
IdParams == {Num(i) : i \in CircleIds} \cup {Num(0), NaN}

Reads == 1..MaxReads
\* a request that has not arrived yet
NoRead == [pc |-> "idle", id |-> Null, hit |-> FALSE, fetches |-> 0, reply |-> Undefined,
           status |-> 0, body |-> Undefined, afterHeal |-> FALSE]

\* the request ends: res.status(code).json(body)
Respond(rd, code, body) == [rd EXCEPT !.pc = "done", !.status = code, !.body = body]

\* the catch block of the ledger lookup (line 465): log, fall through to
\* res.json(circle ?? null)
LookupFailedRetryMutant(rd) == [rd EXCEPT !.pc = "fetch", !.fetches = rd.fetches + 1]
LookupFailed(rd) == Respond(rd, 200, Null)

\* lines 374-422: validation, cache lookup and, on a miss with a contract
\* hash configured, the one fetch() to the node
GetCircleStart(r, idParam) ==
    /\ reads[r].pc = "idle"
    /\ req' = [op |-> "getCircle"]
    /\ UNCHANGED <<invitations, dbOpen, circles, members, tasks, taskColumns, now, res, contractHash, hist>>
    /\ UNCHANGED <<app, ledger>>
    /\ LET rd == [reads[r] EXCEPT !.id = idParam,
                                  !.afterHeal = (~BadCircleId(idParam) /\ idParam.n \in hist.healed)] IN
       IF BadCircleId(idParam)
       THEN reads' = [reads EXCEPT ![r] = Respond(rd, 400, Null)]
       ELSE IF ~dbOpen
       THEN reads' = [reads EXCEPT ![r] = Respond(rd, 503, Null)]
       ELSE IF idParam.n \in DOMAIN circles
       THEN reads' = [reads EXCEPT ![r] =
                        Respond([rd EXCEPT !.hit = TRUE], 200, circles[idParam.n])]
       ELSE IF ~contractHash
       THEN reads' = [reads EXCEPT ![r] = Respond(rd, 200, Null)]
       ELSE reads' = [reads EXCEPT ![r] = [rd EXCEPT !.pc = "fetch", !.fetches = rd.fetches + 1]]

\* `await fetch(...)` settles: the node answered, or the call rejected
GetCircleFetch(r, answered) ==
    /\ reads[r].pc = "fetch"
    /\ req' = [op |-> "getCircle"]
    /\ UNCHANGED <<invitations, dbOpen, circles, members, tasks, taskColumns, now, res, contractHash, hist>>
    /\ UNCHANGED <<app, ledger>>
    /\ IF answered
       THEN reads' = [reads EXCEPT ![r].pc = "json"]
       ELSE reads' = [reads EXCEPT ![r] = LookupFailed(reads[r])]

\* `await response.json()` settles (lines 424-473): the body does not parse,
\* or it is one of the replies; a CLValue with an owner is written to the
\* cache and read back
GetCircleJson(r, parsedOk, reply) ==
    /\ reads[r].pc = "json"
    /\ req' = [op |-> "getCircle"]
    /\ UNCHANGED <<invitations, dbOpen, members, tasks, taskColumns, res, contractHash>>
    /\ UNCHANGED <<app, ledger>>
    /\ LET rd == reads[r]
           id == rd.id.n
       IN IF ~parsedOk
          THEN /\ reads' = [reads EXCEPT ![r] = LookupFailed(rd)]
               /\ UNCHANGED <<circles, now, hist>>
          ELSE IF reply.error \/ reply.chainData = Undefined \/ ~Truthy(ChainOwner(reply.chainData))
          THEN /\ reads' = [reads EXCEPT ![r] = Respond([rd EXCEPT !.reply = reply], 200, Null)]
               /\ UNCHANGED <<circles, now, hist>>
          ELSE \E ts \in Clock :
               /\ now' = ts
               /\ circles' = SqlHealCircle(circles, HealValues(id, reply.chainData, ts))
               /\ hist' = [hist EXCEPT !.healed = hist.healed \cup {id}]
               /\ reads' = [reads EXCEPT ![r] =
                              Respond([rd EXCEPT !.reply = reply], 200,
                                      IF id \in DOMAIN circles' THEN circles'[id] ELSE Null)]

\* state after module load for the read path: CONTRACT_HASH set or not
InitRead ==
    /\ dbOpen \in BOOLEAN
    /\ circles \in IF dbOpen THEN {NoRows, SeedCircles} ELSE {NoRows}
    /\ members = {}
    /\ tasks = NoRows
    /\ taskColumns = {}
    /\ invitations = NoRows
    /\ now = 0
    /\ res = NoRes
    /\ reads = [r \in Reads |-> NoRead]
    /\ contractHash \in BOOLEAN
    /\ req = NoReq
    /\ app = NoApp
    /\ ledger = {}
    /\ hist = NoHist

\* the steps of the read handler; writes are not interleaved here
NextRead ==
    \/ \E r \in Reads : \E idParam \in IdParams : GetCircleStart(r, idParam)
    \/ \E r \in Reads : \E answered \in BOOLEAN : GetCircleFetch(r, answered)
    \/ \E r \in Reads : \E parsedOk \in BOOLEAN : \E reply \in RpcReplies : GetCircleJson(r, parsedOk, reply)

SpecRead == InitRead /\ [][NextRead]_vars

\* the read path under the scheduling the handler can count on: once the
\* node's response has arrived, its body is delivered and the continuation
\* after `await response.json()` runs. Whether `await fetch(...)` settles is
\* up to the node: the call passes no signal or timeout and the handler
\* starts no timer, so that step carries no fairness condition.
SpecReadLive ==
    /\ InitRead
    /\ [][NextRead]_vars
    /\ \A r \in Reads :
         WF_vars(\E parsedOk \in BOOLEAN : \E reply \in RpcReplies : GetCircleJson(r, parsedOk, reply))

\* ---------------------------------------------- GET /circles/:id/members
\* rows with circle_id = the bound parameter
MembersOfCircle(idParam) ==
    IF idParam = NaN THEN {} ELSE {r \in members : r.circle_id = idParam.n}

\* ORDER BY is_owner DESC, joined_at ASC: row a sorts strictly before row b
MemberBeforeJoinedDescMutant(a, b) ==
    \/ a.is_owner > b.is_owner
    \/ a.is_owner = b.is_owner /\ a.joined_at > b.joined_at
MemberBefore(a, b) ==
    \/ a.is_owner > b.is_owner
    \/ a.is_owner = b.is_owner /\ a.joined_at < b.joined_at

\* the sequences the SELECT may return: each row once, in an order that
\* agrees with the ORDER BY clause; rows equal in both sort keys come in
\* either order
MemberOrders(rows) ==
    {out \in [1..Cardinality(rows) -> rows] :
        /\ \A i \in DOMAIN out : \A j \in DOMAIN out : i # j => out[i] # out[j]
        /\ \A i \in DOMAIN out : \A j \in DOMAIN out : i < j => ~MemberBefore(out[j], out[i])}

\* members.map(m => ({ ..., name: m.name || null, is_owner: !!m.is_owner,
\* tx_hash: m.tx_hash || null, ... }))
MemberJson(m) ==
    [circle_id |-> m.circle_id, address |-> m.address, name |-> Or(m.name, Null),
     is_owner |-> (m.is_owner # 0), tx_hash |-> Or(m.tx_hash, Null), joined_at |-> m.joined_at]

\* the handler, lines 711-722: no try block and no check of `db`, so an
\* undefined handle ends in the error middleware (500)
GetMembers(idParam) ==
    /\ req' = [op |-> "getMembers", id |-> idParam]
    /\ UNCHANGED <<invitations, dbOpen, circles, members, tasks, taskColumns, now, reads, contractHash, hist>>
    /\ UNCHANGED <<app, ledger>>
    /\ IF ~dbOpen
       THEN res' = [status |-> 500, body |-> Null]
       ELSE \E out \in MemberOrders(MembersOfCircle(idParam)) :
               res' = [status |-> 200, body |-> [k \in DOMAIN out |-> MemberJson(out[k])]]

\* request bodies for two addresses in the demo circle, one of them seeded,
\* with is_owner absent or true; and one for a member of another circle
NewMemberAddr == <<"0", "f">>
MemberListInputs ==
    { [circle_id |-> Num(DemoCircleId), address |-> Str(a), name |-> Undefined, is_owner |-> o,
       tx_hash |-> Undefined] :
        a \in {MEMBER1_ADDR, NewMemberAddr}, o \in {Undefined, Bool(TRUE)} }
    \cup
    { [circle_id |-> Num(DemoCircleId + 1), address |-> Str(MEMBER1_ADDR), name |-> Undefined,
       is_owner |-> Undefined, tx_hash |-> Undefined] }

NextMemberList ==
    \/ \E input \in MemberListInputs : UpsertMember(input)
    \/ \E idParam \in IdParams : GetMembers(idParam)

SpecMemberList == InitMember /\ [][NextMemberList]_vars

\* ------------------------------------------------ GET /circles/:id/tasks
\* rows with circle_id = the bound parameter; NaN is bound as NULL, which
\* equals no circle_id
TasksOfCircle(idParam) ==
    IF idParam = NaN THEN {}
    ELSE {tasks[k] : k \in {k \in DOMAIN tasks : tasks[k].circle_id = idParam.n}}

\* ORDER BY completed ASC, priority DESC, id DESC: row a sorts before row b
TaskBeforeIdAscMutant(a, b) ==
    \/ a.completed < b.completed
    \/ a.completed = b.completed /\ a.priority > b.priority
    \/ a.completed = b.completed /\ a.priority = b.priority /\ a.id < b.id
TaskBefore(a, b) ==
    \/ a.completed < b.completed
    \/ a.completed = b.completed /\ a.priority > b.priority
    \/ a.completed = b.completed /\ a.priority = b.priority /\ a.id > b.id

\* the rows in the order of the ORDER BY clause (id is the primary key, so
\* the order is total)
RECURSIVE OrderTasks(_)
OrderTasks(rows) ==
    IF rows = {} THEN <<>>
    ELSE LET first == CHOOSE r \in rows : \A o \in rows \ {r} : TaskBefore(r, o)
         IN <<first>> \o OrderTasks(rows \ {first})

\* tasks.map(t => ({ ...t, completed: !!t.completed }))
TaskJson(t) == [t EXCEPT !.completed = (t.completed # 0)]

\* the handler, lines 891-899: `db` is used unchecked and there is no try
\* block, so an undefined handle ends in the error middleware (500)
GetTasks(idParam) ==
    /\ req' = [op |-> "getTasks", id |-> idParam]
    /\ hist' = [hist EXCEPT !.repeat = FALSE]
    /\ UNCHANGED <<invitations, dbOpen, circles, members, tasks, taskColumns, now, reads, contractHash>>
    /\ UNCHANGED <<app, ledger>>
    /\ IF ~dbOpen
       THEN res' = [status |-> 500, body |-> Null]
       ELSE LET rows == OrderTasks(TasksOfCircle(idParam))
            IN res' = [status |-> 200, body |-> [k \in 1..Len(rows) |-> TaskJson(rows[k])]]

\* request bodies that differ in circle, priority and completion
TaskListInputs ==
    { [TaskBody(i) EXCEPT !.circle_id = Num(c), !.priority = p, !.completed = Bool(done)] :
        i \in TaskIds, c \in CircleIds, p \in {Undefined, Num(2)}, done \in BOOLEAN }

NextTaskList ==
    \/ \E input \in TaskListInputs : UpsertTask(input)
    \/ \E idParam \in IdParams : GetTasks(idParam)

SpecTaskList == InitTask /\ [][NextTaskList]_vars

\* ------------------------------------------------ GET /circles/:id/stats
\* JavaScript numbers are IEEE 754 doubles. A positive double is modelled as
\* [man, exp]: man is the 53-bit significand as a list of bits, least
\* significant first, with the last bit 1; the value is man * 2^exp.
ManBits == 53

Zeros(n) == [k \in 1..n |-> 0]

\* 2^k
RECURSIVE Pow2(_)
Pow2(k) == IF k = 0 THEN 1 ELSE 2 * Pow2(k - 1)

\* the number a short list of bits (least significant first) stands for
RECURSIVE BitsToNat(_)
BitsToNat(bits) == IF bits = <<>> THEN 0 ELSE Head(bits) + 2 * BitsToNat(Tail(bits))

\* round to nearest, ties to even: the double nearest to bits * 2^exp, for a
\* list of more than ManBits bits whose last bit is 1; rounding up adds one
\* to the kept bits
RoundToDouble(bits, exp) ==
    LET drop == Len(bits) - ManBits
        kept == SubSeq(bits, drop + 1, Len(bits))
        guard == bits[drop]
        sticky == \E k \in 1..(drop - 1) : bits[k] = 1
        up == guard = 1 /\ (sticky \/ kept[1] = 1)
        plusOne == [k \in 1..ManBits |->
                      IF \A l \in 1..(k - 1) : kept[l] = 1 THEN 1 - kept[k] ELSE kept[k]]
    IN IF ~up THEN [man |-> kept, exp |-> exp + drop]
       ELSE IF \A k \in 1..ManBits : kept[k] = 1
       THEN [man |-> Zeros(ManBits - 1) \o <<1>>, exp |-> exp + drop + 1]
       ELSE [man |-> plusOne, exp |-> exp + drop]

\* 2^e mod d, by repeated squaring
RECURSIVE Pow2Mod(_, _)
Pow2Mod(e, d) ==
    IF e = 0 THEN 1 % d
    ELSE LET h == Pow2Mod(e \div 2, d)
         IN (((h * h) % d) * (IF e % 2 = 1 THEN 2 ELSE 1)) % d

\* how often n must be doubled to reach d
RECURSIVE Doublings(_, _)
Doublings(n, d) == IF n >= d THEN 0 ELSE 1 + Doublings(2 * n, d)

\* the double c / t for integers 0 < c <= t, by long division of
\* n = c * 2^k by t, where t <= n < 2 * t: ManBits + 1 quotient bits and a
\* sticky bit for the rest, rounded. DoubleRest(j) is twice the remainder
\* left after j quotient bits.
DivideDoubles(c, t) ==
    LET k == Doublings(c, t)
        n == c * Pow2(k)
        DoubleRest(j) == 2 * ((n * Pow2Mod(j - 1, t)) % t)
        QuotientBit(j) == IF j = 1 THEN 1 ELSE IF DoubleRest(j - 1) >= t THEN 1 ELSE 0
        sticky == IF DoubleRest(ManBits + 1) = 0 THEN 0 ELSE 1
        q == [i \in 1..(ManBits + 1) |-> QuotientBit(ManBits + 2 - i)]
    IN RoundToDouble(<<sticky>> \o q, 0 - k - ManBits - 1)

\* width of the numbers a significand is split into for multiplying
LimbBits == 14

\* limbs * f + carry, one limb longer
RECURSIVE TimesSmall(_, _, _)
TimesSmall(limbs, f, carry) ==
    IF limbs = <<>> THEN <<carry>>
    ELSE LET prod == Head(limbs) * f + carry
         IN <<prod % Pow2(LimbBits)>> \o TimesSmall(Tail(limbs), f, prod \div Pow2(LimbBits))

\* the double x * 100: the significand as four numbers below 2^LimbBits,
\* their exact product with 100 as a bit list without its leading zeros,
\* rounded
TimesHundred(x) ==
    LET padded == x.man \o Zeros(LimbBits * 4 - ManBits)
        limbs == [j \in 1..4 |-> BitsToNat(SubSeq(padded, LimbBits * (j - 1) + 1, LimbBits * j))]
        prod == TimesSmall(limbs, 100, 0)
        bits == [k \in 1..(LimbBits * Len(prod)) |->
                    (prod[((k - 1) \div LimbBits) + 1] \div Pow2((k - 1) % LimbBits)) % 2]
        top == CHOOSE k \in 1..Len(bits) : bits[k] = 1 /\ \A l \in (k + 1)..Len(bits) : bits[l] = 0
    IN RoundToDouble(SubSeq(bits, 1, top), x.exp)

\* totalTasks > 0 ? Math.round((completedTasks / totalTasks) * 100) : 0.
\* Math.round of a double below 2^ManBits is its integer part, plus one when
\* the bit of weight 1/2 is set.
CompletionRate(completedTasks, totalTasks) ==
    LET MathRound(x) ==
            LET frac == 0 - x.exp
            IN IF frac > ManBits THEN 0
               ELSE BitsToNat(SubSeq(x.man, frac + 1, ManBits)) + x.man[frac]
    IN IF totalTasks > 0
       THEN IF completedTasks = 0 THEN 0
            ELSE MathRound(TimesHundred(DivideDoubles(completedTasks, totalTasks)))
       ELSE 0

\* SELECT COUNT(*) ... WHERE circle_id=? [AND completed=1]
CountTasks(idParam, onlyCompleted) ==
    IF idParam = NaN THEN 0
    ELSE Cardinality({k \in DOMAIN tasks :
                        /\ tasks[k].circle_id = idParam.n
                        /\ onlyCompleted => tasks[k].completed = 1})

\* the handler, lines 996-1010: no try block and no check of `db`, so an
\* undefined handle ends in the error middleware (500)
GetStats(idParam) ==
    /\ req' = [op |-> "getStats", id |-> idParam]
    /\ hist' = [hist EXCEPT !.repeat = FALSE]
    /\ UNCHANGED <<invitations, dbOpen, circles, members, tasks, taskColumns, now, reads, contractHash>>
    /\ UNCHANGED <<app, ledger>>
    /\ IF ~dbOpen
       THEN res' = [status |-> 500, body |-> Null]
       ELSE LET totalTasks == CountTasks(idParam, FALSE)
                completedTasks == CountTasks(idParam, TRUE)
                memberCount == Cardinality(MembersOfCircle(idParam))
            IN res' = [status |-> 200,
                       body |-> [total_tasks |-> totalTasks,
                                 completed_tasks |-> completedTasks,
                                 open_tasks |-> totalTasks - completedTasks,
                                 completion_rate |-> CompletionRate(completedTasks, totalTasks),
                                 member_count |-> memberCount]]

\* a tasks table written by earlier runs of the server: `total` tasks of the
\* demo circle, the first `done` of them completed
StoredTasks(total, done) ==
    [i \in 1..total |->
        IF i <= done
        THEN SeedTask(i, "T", OWNER_ADDR, 1, 1, Str(OWNER_ADDR), Num(0 - DayMs), Null, 0 - DayMs)
        ELSE SeedTask(i, "T", OWNER_ADDR, 1, 0, Null, Null, Null, 0 - DayMs)]
StoredCounts == {<<3, 1>>, <<8, 1>>, <<40, 23>>}

\* state after module load for the statistics: a tasks table with the
\* columns the upsert names, empty, seeded or stored; members seeded or not
InitStats ==
    /\ dbOpen \in BOOLEAN
    /\ taskColumns = IF dbOpen THEN OpenDbTaskColumns \cup UpsertTaskColumns ELSE {}
    /\ circles = IF dbOpen THEN SeedCircles ELSE NoRows
    /\ members \in IF dbOpen THEN {{}, SeedMembers} ELSE {{}}
    /\ tasks \in IF dbOpen
                 THEN {NoRows, SeedTasks} \cup {StoredTasks(p[1], p[2]) : p \in StoredCounts}
                 ELSE {NoRows}
    /\ invitations = NoRows
    /\ now = 0
    /\ res = NoRes
    /\ reads = NoRows
    /\ contractHash = FALSE
    /\ req = NoReq
    /\ app = NoApp
    /\ ledger = {}
    /\ hist = NoHist

\* the upserts open or complete a task of the demo circle
NextStats ==
    \/ \E i \in TaskIds : \E done \in BOOLEAN :
          UpsertTask([TaskBody(i) EXCEPT !.completed = Bool(done)])
    \/ \E idParam \in IdParams : GetStats(idParam)

SpecStats == InitStats /\ [][NextStats]_vars

\* ------------------------------------------------------------ invitations
\* values crypto.randomBytes(32).toString("hex") returns, abbreviated
Tokens == {"a1", "b2"}
\* token of an invitation the database file holds from an earlier run
OldToken == "c3"
\* 7 * 24 * 60 * 60 * 1000
WeekMs == 604800000

\* String.prototype.toLowerCase on the letters used
ToLowerCase(str) ==
    LET UpperCase == <<"A", "B", "C", "D", "E", "F", "G", "H", "I", "J", "K", "L", "M",
                       "N", "O", "P", "Q", "R", "S", "T", "U", "V", "W", "X", "Y", "Z">>
        LowerCase == <<"a", "b", "c", "d", "e", "f", "g", "h", "i", "j", "k", "l", "m",
                       "n", "o", "p", "q", "r", "s", "t", "u", "v", "w", "x", "y", "z">>
        ToLowerChar(c) ==
            IF \E k \in 1..Len(UpperCase) : UpperCase[k] = c
            THEN LowerCase[CHOOSE k \in 1..Len(UpperCase) : UpperCase[k] = c]
            ELSE c
    IN [k \in 1..Len(str) |-> ToLowerChar(str[k])]

\* z.string().email(), on the shapes used here: one "@" after a non-empty
\* local part, then a domain whose last label has at least two characters
ZEmail(v) ==
    /\ IsStr(v)
    /\ \E p \in 2..Len(v.s) :
         /\ v.s[p] = "@"
         /\ \A k \in 1..Len(v.s) : v.s[k] = "@" => k = p
         /\ \E q \in (p + 2)..(Len(v.s) - 2) :
              /\ v.s[q] = "."
              /\ \A k \in (q + 1)..Len(v.s) : v.s[k] # "."

\* lines 1216-1222: the request schema
SendSchemaOk(data) ==
    /\ ZPosInt(data.circle_id)
    /\ ZEmail(data.email)
    /\ ZStrMin1(data.member_name)
    /\ ZStrOpt(data.circle_name)
    /\ ZStrOpt(data.inviter_name)

\* DEFAULT (strftime('%s', 'now') * 1000): whole seconds, in milliseconds
SecondsMs(ts) == (ts \div 1000) * 1000

\* the row the INSERT of lines 1238-1248 creates; status and created_at take
\* the column defaults
InvitationValuesDayMutant(token, data, ts) ==
    [token |-> token,
     circle_id |-> data.circle_id.n,
     email |-> Str(ToLowerCase(data.email.s)),
     member_name |-> data.member_name,
     inviter_name |-> Or(data.inviter_name, Null),
     status |-> "pending",
     created_at |-> SecondsMs(ts),
     expires_at |-> Num(ts + DayMs),
     accepted_at |-> Null,
     accepted_address |-> Null]
InvitationValues(token, data, ts) ==
    [token |-> token,
     circle_id |-> data.circle_id.n,
     email |-> Str(ToLowerCase(data.email.s)),
     member_name |-> data.member_name,
     inviter_name |-> Or(data.inviter_name, Null),
     status |-> "pending",
     created_at |-> SecondsMs(ts),
     expires_at |-> Num(ts + WeekMs),
     accepted_at |-> Null,
     accepted_address |-> Null]

\* POST /invitations/send, lines 1215-1341. `db` is used unchecked: an
\* undefined handle throws after schema.parse and is answered 500, as is a
\* token that is already a primary key. Sending the mail changes no table
\* and its failure is swallowed.
SendInvitation(data, token) ==
    /\ req' = [op |-> "sendInvitation", input |-> data, token |-> token]
    /\ hist' = [hist EXCEPT !.repeat = FALSE]
    /\ UNCHANGED <<dbOpen, circles, members, tasks, taskColumns, reads, contractHash>>
    /\ UNCHANGED <<app, ledger>>
    /\ IF ~SendSchemaOk(data)
       THEN /\ res' = [status |-> 400, body |-> Null]
            /\ UNCHANGED <<invitations, now>>
       ELSE IF ~dbOpen
       THEN /\ res' = [status |-> 500, body |-> Null]
            /\ UNCHANGED <<invitations, now>>
       ELSE IF data.circle_id.n \notin DOMAIN circles
       THEN /\ res' = [status |-> 404, body |-> Null]
            /\ UNCHANGED <<invitations, now>>
       ELSE \E ts \in Clock :
            /\ now' = ts
            /\ IF token \in DOMAIN invitations
               THEN /\ res' = [status |-> 500, body |-> Null]
                    /\ UNCHANGED invitations
               ELSE /\ invitations' = Put(invitations, token, InvitationValues(token, data, ts))
                    /\ res' = [status |-> 200, body |-> [success |-> TRUE, token |-> token]]

\* SELECT i.* ... FROM invitations i JOIN circles c ON i.circle_id = c.id
\* WHERE i.token = ? AND i.status = 'pending': the rows it returns
PendingInvitationAnyStatusMutant(token) ==
    {invitations[t] : t \in {t \in DOMAIN invitations :
        /\ t = token
        /\ invitations[t].circle_id \in DOMAIN circles}}
PendingInvitation(token) ==
    {invitations[t] : t \in {t \in DOMAIN invitations :
        /\ t = token
        /\ invitations[t].status = "pending"
        /\ invitations[t].circle_id \in DOMAIN circles}}

\* invitation.expires_at && invitation.expires_at < Date.now()
ExpiredNeverMutant(inv, ts) == FALSE
Expired(inv, ts) == Truthy(inv.expires_at) /\ inv.expires_at.n < ts

\* GET /invitations/:token, lines 1362-1395
GetInvitation(token) ==
    /\ req' = [op |-> "getInvitation", token |-> token]
    /\ hist' = [hist EXCEPT !.repeat = FALSE]
    /\ UNCHANGED <<invitations, dbOpen, circles, members, tasks, taskColumns, reads, contractHash>>
    /\ UNCHANGED <<app, ledger>>
    /\ IF ~dbOpen
       THEN /\ res' = [status |-> 500, body |-> Null]
            /\ UNCHANGED now
       ELSE IF PendingInvitation(token) = {}
       THEN /\ res' = [status |-> 404, body |-> [error |-> "used"]]
            /\ UNCHANGED now
       ELSE LET invitation == CHOOSE i \in PendingInvitation(token) : TRUE IN
            IF ~Truthy(invitation.expires_at)
            THEN /\ res' = [status |-> 200, body |-> [token |-> invitation.token,
                                                      circle_id |-> invitation.circle_id,
                                                      expires_at |-> invitation.expires_at]]
                 /\ UNCHANGED now
            ELSE \E ts \in Clock :
                 /\ now' = ts
                 /\ IF Expired(invitation, ts)
                    THEN res' = [status |-> 404, body |-> [error |-> "expired"]]
                    ELSE res' = [status |-> 200, body |-> [token |-> invitation.token,
                                                           circle_id |-> invitation.circle_id,
                                                           expires_at |-> invitation.expires_at]]

\* z.object({ address: z.string().min(64) })
AcceptSchemaOk(body) == IsStr(body.address) /\ Len(body.address.s) >= 64

\* UPDATE invitations SET status = 'accepted', accepted_at = ?, accepted_address = ?
SqlAcceptInvitation(tbl, token, address, ts) ==
    [t \in DOMAIN tbl |->
        IF t = token
        THEN [tbl[t] EXCEPT !.status = "accepted", !.accepted_at = Num(ts),
                            !.accepted_address = address]
        ELSE tbl[t]]

\* INSERT INTO members ... VALUES(?, ?, ?, 0, ?) ON CONFLICT(circle_id, address)
\* DO UPDATE SET name=COALESCE(excluded.name, name)
AcceptMemberValues(invitation, address, ts) ==
    [circle_id |-> invitation.circle_id, address |-> address, name |-> invitation.member_name,
     is_owner |-> 0, tx_hash |-> Null, joined_at |-> ts]
SqlAcceptMember(rows, ex) ==
    LET hit == {r \in rows : MemberKey(r) = MemberKey(ex)}
    IN IF hit = {}
       THEN rows \cup {ex}
       ELSE (rows \ hit) \cup {[r EXCEPT !.name = Coalesce(ex.name, r.name)] : r \in hit}

\* outcomes of the two write statements of an accept: both run, the UPDATE
\* throws, or the INSERT throws after the UPDATE has run (the statements are
\* not wrapped in a transaction)
WriteFaults == {"none", "update", "insert"}

\* POST /invitations/:token/accept, lines 1430-1489; the handler has no
\* await, so it runs to its response without another handler in between
AcceptInvitation(token, body, fault) ==
    /\ req' = [op |-> "acceptInvitation", token |-> token, input |-> body]
    /\ UNCHANGED <<dbOpen, circles, tasks, taskColumns, reads, contractHash>>
    /\ UNCHANGED <<app, ledger>>
    /\ IF ~AcceptSchemaOk(body)
       THEN /\ res' = [status |-> 400, body |-> Null]
            /\ UNCHANGED <<invitations, members, now, hist>>
       ELSE IF ~dbOpen
       THEN /\ res' = [status |-> 500, body |-> Null]
            /\ UNCHANGED <<invitations, members, now, hist>>
       ELSE IF PendingInvitation(token) = {}
       THEN /\ res' = [status |-> 404, body |-> [error |-> "used"]]
            /\ UNCHANGED <<invitations, members, now, hist>>
       ELSE LET invitation == CHOOSE i \in PendingInvitation(token) : TRUE IN
            \E ts1 \in Clock :
               IF Expired(invitation, ts1)
               THEN /\ res' = [status |-> 404, body |-> [error |-> "expired"]]
                    /\ now' = ts1
                    /\ UNCHANGED <<invitations, members, hist>>
               ELSE \E ts2 \in ts1..MaxTime :
                    IF fault = "update"
                    THEN /\ res' = [status |-> 500, body |-> Null]
                         /\ now' = ts2
                         /\ UNCHANGED <<invitations, members, hist>>
                    ELSE \E ts3 \in ts2..MaxTime :
                         /\ now' = ts3
                         /\ invitations' = SqlAcceptInvitation(invitations, token, body.address, ts2)
                         /\ IF fault = "insert"
                            THEN /\ res' = [status |-> 500, body |-> Null]
                                 /\ UNCHANGED <<members, hist>>
                            ELSE /\ members' = SqlAcceptMember(members,
                                                  AcceptMemberValues(invitation, body.address, ts3))
                                 /\ res' = [status |-> 200,
                                            body |-> [success |-> TRUE,
                                                      circle_id |-> invitation.circle_id]]
                                 /\ hist' = [hist EXCEPT !.accepts = Put(hist.accepts, token,
                                                IF token \in DOMAIN hist.accepts
                                                THEN hist.accepts[token] + 1 ELSE 1)]

\* an invitation for the demo circle stored eight days before the start,
\* so that it expired a day before the start
OldInvitations ==
    Put(NoRows, OldToken,
        [token |-> OldToken, circle_id |-> DemoCircleId,
         email |-> Str(<<"o", "@", "b", ".", "i", "o">>), member_name |-> S1("M"),
         inviter_name |-> Null, status |-> "pending", created_at |-> 0 - DayMs - WeekMs,
         expires_at |-> Num(0 - DayMs), accepted_at |-> Null, accepted_address |-> Null])

\* request bodies of POST /invitations/send: per circle id a valid one with
\* an upper-case letter in the address; and bodies that fail the schema
SendInputs ==
    { [circle_id |-> Num(i), email |-> Str(<<"A", "@", "b", ".", "i", "o">>), member_name |-> S1("N"),
       circle_name |-> Undefined, inviter_name |-> Undefined] : i \in CircleIds }
    \cup
    { [circle_id |-> Num(DemoCircleId), email |-> Str(<<"A", "@", "b">>), member_name |-> S1("N"),
       circle_name |-> Undefined, inviter_name |-> Undefined],
      [circle_id |-> Num(DemoCircleId), email |-> Str(<<"A", "@", "b", ".", "i", "o">>),
       member_name |-> Str(<<>>), circle_name |-> Undefined, inviter_name |-> S1("I")] }


\* state after module load for the invitation handlers: the circle of the
\* demo data exists; the database file is new, or it holds the old
\* invitation and the demo members
InitInvite ==
    /\ dbOpen \in BOOLEAN
    /\ circles = IF dbOpen THEN SeedCircles ELSE NoRows
    /\ invitations \in IF dbOpen THEN {NoRows, OldInvitations} ELSE {NoRows}
    /\ members = IF invitations = NoRows THEN {} ELSE SeedMembers
    /\ tasks = NoRows
    /\ taskColumns = {}
    /\ now = 0
    /\ res = NoRes
    /\ reads = NoRows
    /\ contractHash = FALSE
    /\ req = NoReq
    /\ app = NoApp
    /\ ledger = {}
    /\ hist = NoHist

\* the tokens asked for are the stored one and the ones a send can draw; an
\* accept carries a 64-character account hash or one a character short
NextInvite ==
    \/ \E data \in SendInputs : \E token \in Tokens : SendInvitation(data, token)
    \/ \E token \in {OldToken} \cup Tokens : GetInvitation(token)
    \/ \E token \in {OldToken} \cup Tokens : \E len \in {64, 63} : \E fault \in WriteFaults :
         AcceptInvitation(token, [address |-> Str([k \in 1..len |-> "a"])], fault)

SpecInvite == InitInvite /\ [][NextInvite]_vars

\* ------------------------------------------ joining through an invitation
\* handleAcceptInvitation after acceptInvitation resolved, when the wallet
\* is connected with the address that joined: addMemberOnChain, whose
\* failure is caught and only logged
AddMemberOnChain(succeeded) ==
    /\ req.op = "acceptInvitation" /\ res.status = 200
    /\ ledger' = IF succeeded
                 THEN ledger \cup {<<"member", res.body.circle_id, req.input.address>>}
                 ELSE ledger
    /\ UNCHANGED <<dbOpen, circles, members, tasks, invitations, taskColumns, now, res, reads,
                   contractHash, req, hist, app>>

NextJoin ==
    \/ NextInvite
    \/ \E succeeded \in BOOLEAN : AddMemberOnChain(succeeded)

SpecJoin == InitInvite /\ [][NextJoin]_vars

\* ------------------------------------- POST /circles/upsert, bad requests
\* a request body that passes the schema, and bodies that differ from it in
\* one required field: id zero, negative, absent, null or a string; name
\* absent, null or empty; owner absent or empty
GoodCircleBody(i) ==
    [id |-> Num(i), name |-> S1("A"), owner |-> S1("X"), wallet_key |-> Undefined,
     tx_hash |-> Undefined]
BadCircleBodies ==
    { [GoodCircleBody(DemoCircleId) EXCEPT !.id = v] :
        v \in {Num(0), Num(0 - 1), Undefined, Null, S1("1")} }
    \cup { [GoodCircleBody(DemoCircleId) EXCEPT !.name = v] : v \in {Undefined, Null, Str(<<>>)} }
    \cup { [GoodCircleBody(DemoCircleId) EXCEPT !.owner = v] : v \in {Undefined, Str(<<>>)} }

\* state after module load: the database did not open, is new, or holds the
\* demo data and the old invitation
InitValidate ==
    /\ dbOpen \in BOOLEAN
    /\ circles \in IF dbOpen THEN {NoRows, SeedCircles} ELSE {NoRows}
    /\ members = IF circles = NoRows THEN {} ELSE SeedMembers
    /\ tasks = IF circles = NoRows THEN NoRows ELSE SeedTasks
    /\ invitations = IF circles = NoRows THEN NoRows ELSE OldInvitations
    /\ taskColumns = IF dbOpen THEN OpenDbTaskColumns ELSE {}
    /\ now = 0
    /\ res = NoRes
    /\ reads = NoRows
    /\ contractHash = FALSE
    /\ req = NoReq
    /\ app = NoApp
    /\ ledger = {}
    /\ hist = NoHist

NextValidate ==
    \E input \in BadCircleBodies \cup {GoodCircleBody(i) : i \in CircleIds} : UpsertCircle(input)

SpecValidate == InitValidate /\ [][NextValidate]_vars

\* ------------------------------------------- upserts arriving together
\* two clients post to the same circle and to the same task; each handler
\* runs from schema.parse to res.json without an await, so whichever
\* request the event loop takes first runs to its end before the other
NextUpserts ==
    \/ \E n \in {S1("A"), S1("B")} : \E h \in {Undefined, S1("h")} :
          UpsertCircle([GoodCircleBody(DemoCircleId) EXCEPT !.name = n, !.tx_hash = h])
    \/ \E h \in {Undefined, S1("h")} : \E p \in {Null, S1("p")} : \E c \in BOOLEAN :
          UpsertTask([TaskBody(1) EXCEPT !.tx_hash = h, !.payment_tx_hash = p,
                                         !.completed = Bool(c)])

SpecUpserts == InitTask /\ [][NextUpserts]_vars

\* the read handler with POST /circles/upsert handled between its awaits
NextReadUpsert ==
    \/ NextRead
    \/ \E i \in CircleIds : UpsertCircle(GoodCircleBody(i))

SpecReadUpsert == InitRead /\ [][NextReadUpsert]_vars

\* ------------------------------------------------- App component (browser)
\* calls of refreshCircleData that may await their responses at one time
MaxInFlight == 2

\* refreshCircleData(circleId) up to its await: the three requests are sent
RefreshCircleData(a, circleId, awaited) ==
    [a EXCEPT !.refreshes = Append(@, [circle |-> circleId, awaited |-> awaited])]

\* handleLoadCircle by id, from the response of fetchCircle on: the button is
\* disabled while busy; a circle the cache has is set as the circle state
\* and the handler awaits refreshCircleData(id) before it clears busy
HandleLoadCircle(id) ==
    /\ ~app.busy
    /\ dbOpen /\ id \in DOMAIN circles
    /\ Len(app.refreshes) < MaxInFlight
    /\ app' = [RefreshCircleData(app, Num(id), TRUE)
                  EXCEPT !.circle = Num(id), !.busy = TRUE,
                         !.event = [op |-> "load", circle |-> Num(id)]]
    /\ UNCHANGED <<dbOpen, circles, members, tasks, invitations, taskColumns, now, res, reads,
                   contractHash, req, hist, ledger>>

\* handleLeaveCircle: the button is enabled whenever a circle is shown
HandleLeaveCircle ==
    /\ app.circle # Null
    /\ app' = [app EXCEPT !.circle = Null, !.tasks = <<>>, !.members = <<>>,
                          !.event = [op |-> "leave", circle |-> Null]]
    /\ UNCHANGED <<dbOpen, circles, members, tasks, invitations, taskColumns, now, res, reads,
                   contractHash, req, hist, ledger>>

\* handleDisconnect: returns at once while busy, else clears the state
\* before its first await
HandleDisconnect ==
    /\ ~app.busy
    /\ app' = [app EXCEPT !.circle = Null, !.tasks = <<>>, !.members = <<>>,
                          !.event = [op |-> "disconnect", circle |-> Null]]
    /\ UNCHANGED <<dbOpen, circles, members, tasks, invitations, taskColumns, now, res, reads,
                   contractHash, req, hist, ledger>>

\* the cleanup the auto-refresh effect returned: clearInterval of the handle
\* that run of the effect created, the latest one
ClearIntervalKeepMutant(intervals) == intervals
ClearInterval(intervals) == SubSeq(intervals, 1, Len(intervals) - 1)

\* the auto-refresh effect, run by React after a render in which circle?.id
\* differs from the value of the run before: first the cleanup of that run,
\* if it returned one, then the body, which returns at once without a circle
\* and otherwise refreshes and starts the interval
AutoRefreshEffect ==
    LET id == IF app.circle = Null THEN Undefined ELSE app.circle
        cleared == IF app.deps = Undefined THEN app.intervals ELSE ClearInterval(app.intervals)
        ran == [app EXCEPT !.deps = id, !.intervals = cleared,
                           !.event = [op |-> "effect", circle |-> id]]
    IN /\ app.deps # id
       /\ IF app.circle = Null
          THEN app' = ran
          ELSE /\ Len(app.refreshes) < MaxInFlight
               /\ app' = [RefreshCircleData(ran, id, FALSE) EXCEPT !.intervals = Append(@, id)]
       /\ UNCHANGED <<dbOpen, circles, members, tasks, invitations, taskColumns, now, res, reads,
                      contractHash, req, hist, ledger>>

\* the callback of interval k: refreshCircleData with the circle.id of the
\* render whose effect started the interval
IntervalTick(k) ==
    /\ k \in DOMAIN app.intervals
    /\ Len(app.refreshes) < MaxInFlight
    /\ app' = [RefreshCircleData(app, app.intervals[k], FALSE)
                  EXCEPT !.event = [op |-> "tick", circle |-> app.intervals[k]]]
    /\ UNCHANGED <<dbOpen, circles, members, tasks, invitations, taskColumns, now, res, reads,
                   contractHash, req, hist, ledger>>

\* the Promise.all of call k settles: fulfilled, the responses of GET
\* /circles/:id/tasks and /members become the tasks and members state;
\* rejected, the catch only logs. A call the load handler awaits clears busy.
RefreshSettle(k, fulfilled) ==
    /\ k \in DOMAIN app.refreshes
    /\ LET call == app.refreshes[k]
           left == [app EXCEPT !.refreshes = SubSeq(@, 1, k - 1) \o SubSeq(@, k + 1, Len(@)),
                               !.busy = IF call.awaited THEN FALSE ELSE @,
                               !.event = [op |-> "settle", circle |-> call.circle]]
           tasksData == OrderTasks(TasksOfCircle(call.circle))
       IN IF fulfilled /\ dbOpen
          THEN \E membersData \in MemberOrders(MembersOfCircle(call.circle)) :
                  app' = [left EXCEPT
                            !.tasks = [i \in DOMAIN tasksData |-> TaskJson(tasksData[i])],
                            !.members = [i \in DOMAIN membersData |->
                                            [address |-> membersData[i].address,
                                             name |-> MemberJson(membersData[i]).name,
                                             isOwner |-> MemberJson(membersData[i]).is_owner]]]
          ELSE app' = left
    /\ UNCHANGED <<dbOpen, circles, members, tasks, invitations, taskColumns, now, res, reads,
                   contractHash, req, hist, ledger>>

\* the cache holds the demo circle with its members and tasks and a second
\* circle with one task, both put there by upserts; the page has just loaded
InitClient ==
    /\ dbOpen = TRUE
    /\ taskColumns = OpenDbTaskColumns \cup UpsertTaskColumns
    /\ circles = SqlUpsertCircle(SeedCircles, CircleValues(GoodCircleBody(DemoCircleId + 1), 0))
    /\ members = SeedMembers
    /\ tasks = SqlUpsertTask(SeedTasks,
                   TaskValues([TaskBody(Cardinality(DOMAIN SeedTasks) + 1)
                                   EXCEPT !.circle_id = Num(DemoCircleId + 1)], 0))
    /\ invitations = NoRows
    /\ now = 0
    /\ res = NoRes
    /\ reads = NoRows
    /\ contractHash = FALSE
    /\ req = NoReq
    /\ hist = NoHist
    /\ app = NoApp
    /\ ledger = {}

NextClient ==
    \/ \E id \in CircleIds : HandleLoadCircle(id)
    \/ HandleLeaveCircle
    \/ HandleDisconnect
    \/ AutoRefreshEffect
    \/ \E k \in DOMAIN app.intervals : IntervalTick(k)
    \/ \E k \in DOMAIN app.refreshes : \E fulfilled \in BOOLEAN : RefreshSettle(k, fulfilled)

SpecClient == InitClient /\ [][NextClient]_vars

\* ------------------------------------------------------- validatePriority
\* the integers offered to validatePriority are -MaxPriorityInput..MaxPriorityInput
MaxPriorityInput == 50

\* Number.isInteger. A number that is not an integer is n / d in lowest
\* terms with d > 1, [t |-> "num", n |-> n, d |-> d]; Infinity is [t |-> "inf"].
IsInteger(v) == v.t = "num" /\ DOMAIN v = {"t", "n"}

\* the number a string of decimal digits denotes
RECURSIVE DigitsToNat(_)
DigitsToNat(s) ==
    IF s = <<>> THEN 0
    ELSE 10 * DigitsToNat(SubSeq(s, 1, Len(s) - 1))
         + (CHOOSE k \in 0..9 : Digits[k + 1] = s[Len(s)])

\* Number(v): a number is itself, a boolean is 1 or 0, null is 0, undefined
\* is NaN; a string is trimmed, the empty string is 0 and a string of
\* decimal digits is its value (strings with a sign, a point or an exponent
\* are not among the inputs); any other string is NaN
ToNumber(v) ==
    CASE v.t \in {"num", "nan", "inf"} -> v
      [] v.t = "bool" -> Num(IF v.b THEN 1 ELSE 0)
      [] v.t = "null" -> Num(0)
      [] v.t = "undefined" -> NaN
      [] v.t = "str" ->
            LET s == Trim(v.s)
            IN IF \A k \in DOMAIN s : \E d \in DOMAIN Digits : Digits[d] = s[k]
               THEN Num(DigitsToNat(s)) ELSE NaN

ValidatePriorityMax4Mutant(priority) ==
    IF priority = Null \/ priority = Undefined THEN [valid |-> TRUE, value |-> Num(1)]
    ELSE LET numPriority == ToNumber(priority)
         IN IF numPriority = NaN THEN [valid |-> FALSE, value |-> Undefined]
            ELSE IF ~IsInteger(numPriority) THEN [valid |-> FALSE, value |-> Undefined]
            ELSE IF numPriority.n < 0 \/ numPriority.n > 4 THEN [valid |-> FALSE, value |-> Undefined]
            ELSE [valid |-> TRUE, value |-> numPriority]
\* validatePriority; the result of a rejection has an error text and no
\* value property, so its value reads as undefined
ValidatePriority(priority) ==
    IF priority = Null \/ priority = Undefined THEN [valid |-> TRUE, value |-> Num(1)]
    ELSE LET numPriority == ToNumber(priority)
         IN IF numPriority = NaN THEN [valid |-> FALSE, value |-> Undefined]
            ELSE IF ~IsInteger(numPriority) THEN [valid |-> FALSE, value |-> Undefined]
            ELSE IF numPriority.n < 0 \/ numPriority.n > 3 THEN [valid |-> FALSE, value |-> Undefined]
            ELSE [valid |-> TRUE, value |-> numPriority]

\* a form handler calls validatePriority
CallValidatePriority(priority) ==
    /\ app' = [app EXCEPT !.event = [op |-> "validatePriority", input |-> priority,
                                     result |-> ValidatePriority(priority)]]
    /\ UNCHANGED <<dbOpen, circles, members, tasks, invitations, taskColumns, now, res, reads,
                   contractHash, req, hist, ledger>>

\* integers around the accepted range, halves, NaN, Infinity, null,
\* undefined, and the strings and booleans a form field can hold
PriorityInputs ==
    {Num(k) : k \in (0 - MaxPriorityInput)..MaxPriorityInput}
    \cup {[t |-> "num", n |-> k, d |-> 2] : k \in {0 - 3, 0 - 1, 1, 3, 5, 7, 9}}
    \cup {NaN, [t |-> "inf"], Null, Undefined, Bool(TRUE), Bool(FALSE)}
    \cup {Str(<<>>), S1("2"), Str(<<" ", "3", " ">>), S1("4"), Str(<<"1", "0">>), S1("x")}

NextPriority == \E priority \in PriorityInputs : CallValidatePriority(priority)

SpecPriority == InitClient /\ [][NextPriority]_vars

\* ------------------------------------------- reassigning and cancelling
\* the body handleAssignTask posts for the task of the details dialog, a
\* row of the task list as GET /circles/:id/tasks returned it; the fields
\* it does not name are absent
AssignTaskBody(selectedTask, taskAssignTo) ==
    [TaskBody(selectedTask.id) EXCEPT
        !.circle_id = Num(selectedTask.circle_id),
        !.title = selectedTask.title,
        !.description = Or(selectedTask.description, Null),
        !.assigned_to = Or(Str(Trim(taskAssignTo)), Null),
        !.created_by = selectedTask.created_by,
        !.priority = Num(selectedTask.priority),
        !.completed = Bool(selectedTask.completed),
        !.tx_hash = selectedTask.tx_hash]

\* the body handleCancelTask posts
CancelTaskBody(selectedTask) ==
    [TaskBody(selectedTask.id) EXCEPT
        !.circle_id = Num(selectedTask.circle_id),
        !.title = selectedTask.title,
        !.description = Or(selectedTask.description, Null),
        !.assigned_to = selectedTask.assigned_to,
        !.created_by = selectedTask.created_by,
        !.priority = Num(selectedTask.priority),
        !.completed = Bool(TRUE),
        !.tx_hash = selectedTask.tx_hash]

\* the owner of the loaded circle opens a task of the list, which was
\* refreshed since the last change, and reassigns it (to nobody or to one
\* address, typed with blanks around it) or cancels it
NextTaskEdit ==
    \/ \E i \in DOMAIN tasks : \E taskAssignTo \in {<<>>, <<" ", "b", " ">>} :
          UpsertTask(AssignTaskBody(TaskJson(tasks[i]), taskAssignTo))
    \/ \E i \in DOMAIN tasks : UpsertTask(CancelTaskBody(TaskJson(tasks[i])))

SpecTaskEdit == InitTask /\ [][NextTaskEdit]_vars

\* ============================================================== properties
\* a successful POST /circles/upsert has just been handled
CircleUpserted == req.op = "upsertCircle" /\ res.status = 200
NoValue(v) == v = Null \/ v = Undefined

\* C1: once a circle row holds a non-null tx_hash, an upsertCircle for the same
\* id whose tx_hash is null or absent leaves the stored tx_hash unchanged,
\* while the stored name and owner become those of the candidate.
C1_TxHashSticky ==
    [][CircleUpserted' =>
         LET input == req'.input
             i == input.id.n
         IN (i \in DOMAIN circles /\ circles[i].tx_hash # Null /\ NoValue(input.tx_hash))
              => /\ circles'[i].tx_hash = circles[i].tx_hash
                 /\ circles'[i].name = input.name
                 /\ circles'[i].owner = input.owner]_vars

\* a candidate without tx_hash has been merged into a row that still holds a
\* hash (so it held one before) and now carries the candidate's name
C1_Witness ==
    /\ CircleUpserted
    /\ NoValue(req.input.tx_hash)
    /\ circles[req.input.id.n].tx_hash = S1("h")
    /\ circles[req.input.id.n].name = req.input.name
    /\ circles[req.input.id.n].created_at < now

\* C2 (as claimed): once a non-null wallet_key is stored, an upsertCircle for
\* the same id that supplies no wallet_key leaves the stored wallet_key unchanged.
C2_WalletKeySticky ==
    [][CircleUpserted' =>
         LET input == req'.input
             i == input.id.n
         IN (i \in DOMAIN circles /\ circles[i].wallet_key # Null /\ input.wallet_key = Undefined)
              => circles'[i].wallet_key = circles[i].wallet_key]_vars

\* C3: applying the same valid candidate twice in a row leaves the whole
\* circles table (every field of the row, and every other row) as it was
\* after the first application.
C3_UpsertCircleIdempotent ==
    [][(CircleUpserted /\ CircleUpserted' /\ req' = req) => circles' = circles]_vars

\* the same candidate was applied twice in a row, the second time at a later
\* clock reading than the one the row was created at, with another row present
C3_Witness ==
    /\ CircleUpserted
    /\ hist.repeat
    /\ now > circles[req.input.id.n].created_at
    /\ Cardinality(DOMAIN circles) > 1

\* C6: after any sequence of upsertMember calls there is at most one member
\* row per (circle_id, address); its name is the last string supplied as name
\* for that key (a call without a name never clears it) and its is_owner is
\* the flag of the most recent call for that key.
C6_MemberMerge ==
    /\ \A r1 \in members : \A r2 \in members : MemberKey(r1) = MemberKey(r2) => r1 = r2
    /\ {MemberKey(r) : r \in members} = DOMAIN hist.name
    /\ \A r \in members :
         /\ r.name = hist.name[MemberKey(r)]
         /\ r.is_owner = hist.is_owner[MemberKey(r)]

\* a call without a name, flagged owner, has been merged into a row that was
\* created earlier without the flag, and the row still carries a name
C6_Witness ==
    /\ req.op = "upsertMember" /\ res.status = 200
    /\ req.input.name = Undefined
    /\ req.input.is_owner = Bool(TRUE)
    /\ \E r \in members :
         /\ MemberKey(r) = <<req.input.circle_id.n, req.input.address>>
         /\ r.name = S1("N")
         /\ r.is_owner = 1
         /\ r.joined_at < now
    /\ Cardinality(members) > 1

\* a successful POST /tasks/upsert has just been handled
TaskUpserted == req.op = "upsertTask" /\ res.status = 200
RejectedSet(v) == v = Num(1)

\* C4 (as claimed): once a task's rejected flag is stored as set, an upsertTask
\* for the same id that supplies no rejected value leaves the flag set.
C4_RejectedSticky ==
    [][TaskUpserted' =>
         LET input == req'.input
             i == input.id.n
         IN (i \in DOMAIN tasks /\ RejectedSet(tasks[i].rejected) /\ NoValue(input.rejected))
              => RejectedSet(tasks'[i].rejected)]_vars

\* C5: once a task row holds a non-null tx_hash (payment_tx_hash), an
\* upsertTask for the same id whose tx_hash (payment_tx_hash) is null or
\* absent leaves it unchanged; a string given for it replaces the stored one.
C5_TaskHashesSticky ==
    [][TaskUpserted' =>
         LET input == req'.input
             i == input.id.n
         IN i \in DOMAIN tasks =>
              /\ (tasks[i].tx_hash # Null /\ NoValue(input.tx_hash))
                    => tasks'[i].tx_hash = tasks[i].tx_hash
              /\ (tasks[i].payment_tx_hash # Null /\ NoValue(input.payment_tx_hash))
                    => tasks'[i].payment_tx_hash = tasks[i].payment_tx_hash
              /\ IsStr(input.tx_hash) => tasks'[i].tx_hash = input.tx_hash
              /\ IsStr(input.payment_tx_hash) => tasks'[i].payment_tx_hash = input.payment_tx_hash]_vars

\* a body with neither hash has been merged into a row created earlier, and
\* the row holds both hashes, the tx_hash being the second one given
C5_Witness ==
    /\ TaskUpserted
    /\ req.input.tx_hash = Undefined
    /\ req.input.payment_tx_hash = Null
    /\ tasks[req.input.id.n].tx_hash = S1("k")
    /\ tasks[req.input.id.n].payment_tx_hash = S1("p")
    /\ tasks[req.input.id.n].created_at < now

\* some character of the string is not white space
NotBlank(v) == IsStr(v) /\ \E k \in 1..Len(v.s) : v.s[k] \notin WhiteSpace

C8_OpenTaskHasNoCompletion ==
    \A i \in DOMAIN tasks :
        tasks[i].completed = 0 => (tasks[i].completed_by = Null /\ tasks[i].completed_at = Null)

\* the request reached the cache lookup
LookedUp(rd) == rd.pc # "idle" /\ rd.status \notin {400, 503}

\* C9: getCircle contacts the gateway zero times when the cache holds a row
\* for the id, exactly once when it holds none and a contract hash is
\* configured, and never more than once per read.
C9_OneLedgerLookup ==
    \A r \in DOMAIN reads :
        LET rd == reads[r] IN
        /\ rd.fetches <= 1
        /\ rd.hit => rd.fetches = 0
        /\ (LookedUp(rd) /\ ~rd.hit) => rd.fetches = (IF contractHash THEN 1 ELSE 0)

\* one read answered from the cache without a fetch, another one missed,
\* fetched once, got nothing usable and answered null
C9_Witness ==
    \E r1 \in DOMAIN reads : \E r2 \in DOMAIN reads :
        /\ reads[r1].pc = "done" /\ reads[r1].hit /\ reads[r1].fetches = 0
        /\ reads[r2].pc = "done" /\ ~reads[r2].hit /\ reads[r2].fetches = 1
        /\ reads[r2].status = 200 /\ reads[r2].body = Null

\* the gateway answered the read with a record that names an owner
GotValidRecord(rd) ==
    /\ rd.pc = "done"
    /\ rd.reply # Undefined
    /\ ~rd.reply.error
    /\ rd.reply.chainData # Undefined
    /\ \/ IsStr(rd.reply.chainData.parsed.owner)
       \/ IsStr(rd.reply.chainData.owner)

\* C10: a read that misses the cache and gets a valid record from the gateway
\* returns that circle and leaves a row for the id in the cache; every read of
\* that id started afterwards is answered from the cache without a fetch.
C10_SelfHeal ==
    /\ \A r \in DOMAIN reads :
         LET rd == reads[r] IN
         /\ GotValidRecord(rd) =>
              /\ rd.status = 200
              /\ rd.body # Null
              /\ rd.body.id = rd.id.n
              /\ rd.body.owner \in {rd.reply.chainData.parsed.owner, rd.reply.chainData.owner}
              /\ IsStr(rd.reply.chainData.parsed.name) => rd.body.name = rd.reply.chainData.parsed.name
              /\ (rd.reply.chainData.parsed.name = Undefined /\ IsStr(rd.reply.chainData.name))
                    => rd.body.name = rd.reply.chainData.name
              /\ rd.id.n \in DOMAIN circles
         /\ (rd.afterHeal /\ rd.pc # "idle") =>
              /\ rd.pc = "done" /\ rd.hit /\ rd.fetches = 0
              /\ rd.status = 200 /\ rd.body # Null /\ rd.body.id = rd.id.n
    /\ hist.healed \subseteq DOMAIN circles

\* a read healed the cache from a record without a name, and a later read of
\* the same id got the same circle without a fetch
C10_Witness ==
    \E r1 \in DOMAIN reads : \E r2 \in DOMAIN reads :
        /\ GotValidRecord(reads[r1]) /\ reads[r1].fetches = 1
        /\ reads[r1].reply.chainData.name = Undefined
        /\ reads[r2].pc = "done" /\ reads[r2].afterHeal /\ reads[r2].fetches = 0
        /\ reads[r2].id = reads[r1].id
        /\ reads[r2].body = reads[r1].body

\* the read r ends in this step, after a cache miss, without a usable record
MissedWithoutRecord(r) ==
    /\ reads[r].pc # "done"
    /\ reads'[r].pc = "done"
    /\ LookedUp(reads'[r])
    /\ ~reads'[r].hit
    /\ ~GotValidRecord(reads'[r])

\* C11: a read that misses the cache and gets no usable record from the
\* ledger (no contract hash, error reply, no stored value, no owner, or the
\* lookup throws) is answered 200 with body null and leaves the circles table
\* as it was.
C11_NullOnUnusableLedger ==
    [][\A r \in DOMAIN reads :
          MissedWithoutRecord(r) =>
              /\ reads'[r].status = 200
              /\ reads'[r].body = Null
              /\ circles' = circles]_vars

\* a read missed, fetched once, got a stored value without an owner and
\* answered null; the cache has no row for its id
C11_Witness ==
    \E r \in DOMAIN reads :
        /\ reads[r].pc = "done" /\ ~reads[r].hit /\ reads[r].fetches = 1
        /\ reads[r].reply # Undefined
        /\ reads[r].reply.chainData # Undefined
        /\ reads[r].reply.chainData.name = S1("L")
        /\ ~GotValidRecord(reads[r])
        /\ reads[r].status = 200 /\ reads[r].body = Null
        /\ reads[r].id.n \notin DOMAIN circles

\* C12 (as claimed): every read that has arrived is eventually answered, also
\* when the node never answers the ledger lookup.
C12_ReadCompletes ==
    \A r \in Reads : (reads[r].pc # "idle") ~> (reads[r].pc = "done")

\* the step handles POST /invitations/:token/accept for a token whose
\* invitation is already accepted
AcceptOfUsedToken ==
    /\ req'.op = "acceptInvitation"
    /\ req'.token \in DOMAIN invitations
    /\ invitations[req'.token].status = "accepted"

\* C13: per token at most one accept is answered 200; an accepted invitation
\* never changes again; an accept on an accepted token changes neither table
\* and, given a valid body, is answered 404 "not found or already used".
C13_InvitationSingleUse ==
    /\ [](\A t \in DOMAIN hist.accepts : hist.accepts[t] <= 1)
    /\ [][/\ \A t \in DOMAIN invitations :
               invitations[t].status = "accepted" =>
                   (t \in DOMAIN invitations' /\ invitations'[t] = invitations[t])
          /\ AcceptOfUsedToken =>
               /\ members' = members
               /\ invitations' = invitations
               /\ res'.status # 200
               /\ AcceptSchemaOk(req'.input) =>
                    (res'.status = 404 /\ res'.body = [error |-> "used"])]_vars

\* a second valid accept on a token accepted once was answered 404, and the
\* invitation still carries the first accept's time, earlier than now
C13_Witness ==
    /\ req.op = "acceptInvitation"
    /\ AcceptSchemaOk(req.input)
    /\ res.status = 404 /\ res.body = [error |-> "used"]
    /\ req.token \in DOMAIN hist.accepts
    /\ hist.accepts[req.token] = 1
    /\ invitations[req.token].status = "accepted"
    /\ invitations[req.token].accepted_at.n < now
    /\ \E r \in members : MemberKey(r) = <<invitations[req.token].circle_id, req.input.address>>

\* the step handles a GET or an accept for a pending invitation whose
\* expires_at is before the clock
OnExpiredInvitation ==
    /\ req'.op \in {"getInvitation", "acceptInvitation"}
    /\ req'.token \in DOMAIN invitations
    /\ invitations[req'.token].status = "pending"
    /\ invitations[req'.token].expires_at # Null
    /\ invitations[req'.token].expires_at.n < now

\* C14: a GET or an accept for an invitation that has expired fails, and
\* leaves the invitations table (the invitation stays pending) and the
\* members table as they were.
C14_ExpiredRejected ==
    [][OnExpiredInvitation =>
          /\ res'.status \in {400, 404}
          /\ (req'.op = "getInvitation" \/ AcceptSchemaOk(req'.input))
                => (res'.status = 404 /\ res'.body = [error |-> "expired"])
          /\ invitations' = invitations
          /\ members' = members]_vars

\* a valid accept of the old invitation was refused as expired; the
\* invitation is pending and no member row has the address
C14_Witness ==
    /\ req.op = "acceptInvitation"
    /\ AcceptSchemaOk(req.input)
    /\ res.status = 404 /\ res.body = [error |-> "expired"]
    /\ invitations[req.token].status = "pending"
    /\ invitations[req.token].expires_at.n < now
    /\ \A r \in members : r.address # req.input.address

\* C15 (as claimed): an invitation is accepted exactly if a member row exists
\* for its circle and its accepted_address, in every reachable state, also
\* after a store write failed inside an accept.
C15_AcceptAtomic ==
    \A t \in DOMAIN invitations :
        LET i == invitations[t] IN
        /\ i.status = "accepted" =>
             \E r \in members : MemberKey(r) = <<i.circle_id, i.accepted_address>>
        /\ i.status = "pending" => i.accepted_address = Null

\* the step handles POST /invitations/send with a body that passes the schema
SendHandled == req'.op = "sendInvitation" /\ SendSchemaOk(req'.input)

\* C16: a send for a circle_id without a circle row fails (404 when the
\* database is open) and inserts nothing; a send for an existing circle
\* inserts exactly one row, pending, expiring 7 days after the handler's clock
\* reading, and changes no other row; every invitation references a circle row.
C16_CreateInvitation ==
    /\ [](\A t \in DOMAIN invitations : invitations[t].circle_id \in DOMAIN circles)
    /\ [][SendHandled =>
            LET c == req'.input.circle_id.n
                t == req'.token
            IN /\ c \notin DOMAIN circles =>
                    /\ invitations' = invitations
                    /\ res'.status # 200
                    /\ dbOpen => res'.status = 404
               /\ (c \in DOMAIN circles /\ t \notin DOMAIN invitations) =>
                    /\ res'.status = 200
                    /\ DOMAIN invitations' = DOMAIN invitations \cup {t}
                    /\ \A u \in DOMAIN invitations : invitations'[u] = invitations[u]
                    /\ invitations'[t].status = "pending"
                    /\ invitations'[t].circle_id = c
                    /\ invitations'[t].expires_at = Num(now' + WeekMs)
                    /\ invitations'[t].accepted_at = Null]_vars

\* a send for the demo circle, handled after the clock moved, added a second
\* invitation; its address is stored in lower case
C16_Witness ==
    /\ req.op = "sendInvitation"
    /\ res.status = 200
    /\ now > 0
    /\ Cardinality(DOMAIN invitations) > 1
    /\ invitations[req.token].status = "pending"
    /\ invitations[req.token].expires_at = Num(now + WeekMs)
    /\ invitations[req.token].email = Str(<<"a", "@", "b", ".", "i", "o">>)

\* a GET /circles/:id/tasks has just been answered with a list
TasksListed == req.op = "getTasks" /\ res.status = 200

\* C17: the list getTasks returns holds every task of the circle once and no
\* other task, with every open task before every completed one, equal
\* completion ordered by priority descending, and equal priority by id
\* descending.
C17_TasksOrdered ==
    (TasksListed /\ req.id # NaN) =>
        LET out == res.body IN
        /\ {out[k].id : k \in 1..Len(out)} =
              {k \in DOMAIN tasks : tasks[k].circle_id = req.id.n}
        /\ \A i \in 1..Len(out) : \A j \in 1..Len(out) :
             i < j =>
               /\ out[i].id # out[j].id
               /\ out[i].completed => out[j].completed
               /\ (out[i].completed = out[j].completed) => out[i].priority >= out[j].priority
               /\ (out[i].completed = out[j].completed /\ out[i].priority = out[j].priority)
                     => out[i].id > out[j].id

\* a list of four tasks where an upserted task 1 ties with task 2 on
\* completion and priority and comes right after it
C17_Witness ==
    /\ TasksListed
    /\ Len(res.body) = 4
    /\ \E k \in 1..3 :
         /\ res.body[k].id = 2 /\ res.body[k + 1].id = 1
         /\ res.body[k].priority = res.body[k + 1].priority
         /\ res.body[k].completed = res.body[k + 1].completed
    /\ tasks[1].created_at < now

\* a GET /circles/:id/members has just been answered with a list
MembersListed == req.op = "getMembers" /\ res.status = 200

\* C18: the list getMembers returns holds every member of the circle once and
\* no other, owners before non-owners, each group in ascending joined_at; and
\* joined_at is the clock reading of the row's insertion: no upsert of an
\* existing member changes it, so the member keeps its place in its group.
C18_MembersOrdered ==
    /\ [](MembersListed /\ req.id # NaN =>
            LET out == res.body IN
            /\ {<<out[k].circle_id, out[k].address>> : k \in DOMAIN out} =
                  {MemberKey(r) : r \in {r \in members : r.circle_id = req.id.n}}
            /\ \A i \in DOMAIN out : \A j \in DOMAIN out :
                 i < j =>
                   /\ out[i].address # out[j].address
                   /\ out[j].is_owner => out[i].is_owner
                   /\ (out[i].is_owner = out[j].is_owner) => out[i].joined_at <= out[j].joined_at)
    /\ [][\A r2 \in members' :
            IF \E r \in members : MemberKey(r) = MemberKey(r2)
            THEN \E r \in members : MemberKey(r) = MemberKey(r2) /\ r.joined_at = r2.joined_at
            ELSE r2.joined_at = now']_vars

\* four members of the demo circle are listed: two owners, the seeded one
\* before a member who joined later, then the two seeded non-owners; a
\* member of another circle is not listed
C18_Witness ==
    /\ MembersListed
    /\ Len(res.body) = 4
    /\ res.body[1].is_owner /\ res.body[1].joined_at = 0
    /\ res.body[2].is_owner /\ res.body[2].joined_at > 0
    /\ ~res.body[3].is_owner /\ ~res.body[4].is_owner
    /\ Cardinality(members) = 5

\* a GET /circles/:id/stats has just been answered
StatsAnswered == req.op = "getStats" /\ res.status = 200 /\ req.id # NaN

\* C19 (as claimed): getCircleStats returns the number of tasks of the circle,
\* the number of them completed, their difference, the number of member rows,
\* and completion_rate = round(100 * completed / total), the nearest integer
\* with halves rounded up, or 0 without tasks.
C19_StatsCorrect ==
    StatsAnswered =>
        LET total == Cardinality({k \in DOMAIN tasks : tasks[k].circle_id = req.id.n})
            done == Cardinality({k \in DOMAIN tasks :
                                   tasks[k].circle_id = req.id.n /\ tasks[k].completed # 0})
        IN /\ res.body.total_tasks = total
           /\ res.body.completed_tasks = done
           /\ res.body.open_tasks = total - done
           /\ res.body.member_count = Cardinality({r \in members : r.circle_id = req.id.n})
           /\ res.body.completion_rate >= 0 /\ res.body.completion_rate <= 100
           /\ res.body.completion_rate = (IF total > 0 THEN (200 * done + total) \div (2 * total) ELSE 0)

\* the step handles an upsertCircle whose id is not a positive integer or
\* whose name or owner is missing or empty
BadCircleRequest ==
    /\ req'.op = "upsertCircle"
    /\ \/ ~(IsNum(req'.input.id) /\ req'.input.id.n > 0)
       \/ ~(IsStr(req'.input.name) /\ Len(req'.input.name.s) > 0)
       \/ ~(IsStr(req'.input.owner) /\ Len(req'.input.owner.s) > 0)

\* C20 (as claimed): such a request is answered 400 and leaves the circles,
\* members, tasks and invitations tables unchanged.
C20_BadCircleIs400 ==
    [][BadCircleRequest =>
          /\ res'.status = 400
          /\ UNCHANGED <<circles, members, tasks, invitations>>]_vars

\* C20 (amended): such a request is answered 400 when the database handle is
\* defined and 503 when it is not, and in both cases leaves the circles,
\* members, tasks and invitations tables unchanged.
C20_BadCircleRejected ==
    [][BadCircleRequest =>
          /\ res'.status = (IF dbOpen THEN 400 ELSE 503)
          /\ UNCHANGED <<circles, members, tasks, invitations>>]_vars

\* a request with an empty name was answered 400 after a valid upsert had
\* added a second circle to the seeded tables
C20_Witness ==
    /\ req.op = "upsertCircle"
    /\ req.input.name = Str(<<>>)
    /\ res.status = 400
    /\ Cardinality(DOMAIN circles) > 1
    /\ members # {} /\ tasks # NoRows /\ invitations # NoRows

\* C21: an upsert of a circle, a member or a task that arrives while the
\* database handle is undefined is answered 503, never 200, 400 or 404.
C21_UnavailableIs503 ==
    [][(req'.op \in {"upsertCircle", "upsertMember", "upsertTask"} /\ ~dbOpen)
          => res'.status = 503]_vars

C23_TimerPollsLoadedCircle ==
    /\ [](/\ Len(app.intervals) <= 1
          /\ \A k \in DOMAIN app.intervals : app.intervals[k] = app.circle)
    /\ [][app'.event.op = "tick" => app'.event.circle = app'.circle]_vars

\* C23 (amended): at every moment at most one refresh interval is active and
\* it polls the circle the auto-refresh effect last ran for; a run of the
\* effect leaves only the interval it starts, none when no circle is loaded;
\* and every tick refreshes the circle the effect last ran for.
C23_TimerPollsEffectCircle ==
    /\ [](/\ Len(app.intervals) <= 1
          /\ \A k \in DOMAIN app.intervals : app.intervals[k] = app.deps)
    /\ [][/\ app'.event.op = "effect" =>
                app'.intervals = IF app.circle = Null THEN <<>> ELSE <<app.circle>>
          /\ app'.event.op = "tick" => app'.event.circle = app'.deps]_vars

\* the interval of the second circle has just ticked while a refresh of the
\* demo circle, loaded before it, still awaits its responses
C23_Witness ==
    /\ app.event = [op |-> "tick", circle |-> Num(DemoCircleId + 1)]
    /\ app.circle = Num(DemoCircleId + 1)
    /\ app.intervals = <<Num(DemoCircleId + 1)>>
    /\ \E k \in DOMAIN app.refreshes : app.refreshes[k].circle = Num(DemoCircleId)

\* C24: every step that adds a circle, member or task row to the cache adds
\* a row of an entity whose creation on the ledger had succeeded before.
C24_LedgerBeforeCache ==
    [][/\ \A i \in DOMAIN circles' \ DOMAIN circles : <<"circle", i>> \in ledger
       /\ \A i \in DOMAIN tasks' \ DOMAIN tasks : <<"task", i>> \in ledger
       /\ \A m \in members' :
             (\A o \in members : MemberKey(o) # MemberKey(m))
                => <<"member", m.circle_id, m.address>> \in ledger]_vars

\* C25: validatePriority accepts each of the numbers 0, 1, 2 and 3 with the
\* same number as value and no other number; it answers valid with value 1
\* for null and for undefined; and it rejects every integer below 0 or above
\* 3 and every number that is not an integer.
C25_ValidatePriority ==
    app.event.op = "validatePriority" =>
        LET p == app.event.input
            r == app.event.result
        IN /\ p \in {Num(0), Num(1), Num(2), Num(3)} => r.valid /\ r.value = p
           /\ p \in {Null, Undefined} => r.valid /\ r.value = Num(1)
           /\ (IsInteger(p) /\ (p.n < 0 \/ p.n > 3)) => ~r.valid
           /\ (p.t \in {"num", "nan", "inf"} /\ ~IsInteger(p)) => ~r.valid
           /\ (p.t \in {"num", "nan", "inf"} /\ r.valid) => p \in {Num(0), Num(1), Num(2), Num(3)}

\* validatePriority has just accepted 3, the largest priority
C25_Witness ==
    /\ app.event.op = "validatePriority"
    /\ app.event.input = Num(3)
    /\ app.event.result = [valid |-> TRUE, value |-> Num(3)]

\* C26: after an upsertTask for id i and circle c is answered ok, the stored
\* task i has circle_id c, so that the rows getTasks selects for c include it.
C26_UpsertedTaskInCircle ==
    [][(req'.op = "upsertTask" /\ res'.status = 200) =>
          \E k \in DOMAIN tasks' :
             /\ tasks'[k].id = req'.input.id.n
             /\ tasks'[k].circle_id = req'.input.circle_id.n]_vars

\* C27: a step of a getCircle read that directly follows a successful
\* upsertCircle leaves name, owner, wallet_key and tx_hash of the row that
\* upsert wrote as they are.
C27_ReadKeepsClientRow ==
    [][(req.op = "upsertCircle" /\ res.status = 200 /\ req'.op = "getCircle") =>
          LET id == req.input.id.n
          IN /\ circles'[id].name = circles[id].name
             /\ circles'[id].owner = circles[id].owner
             /\ circles'[id].wallet_key = circles[id].wallet_key
             /\ circles'[id].tx_hash = circles[id].tx_hash]_vars

\* C28: while no circle is loaded the task list and the member list of the
\* view are empty, and while a circle is loaded every task in the view is a
\* task of that circle.
C28_ViewShowsActiveCircle ==
    /\ app.circle = Null => app.tasks = <<>> /\ app.members = <<>>
    /\ app.circle # Null => \A k \in DOMAIN app.tasks : app.tasks[k].circle_id = app.circle.n

\* C29: the upsert that handleAssignTask or handleCancelTask posts leaves
\* payment_amount, request_money, rejected, completed_by and completed_at of
\* the stored task as they were (for the two flags, a NULL of a row written
\* before the columns existed counts as the 0 it stands for), and does not
\* reopen a completed task.
C29_EditKeepsOtherFields ==
    [][(req'.op = "upsertTask" /\ res'.status = 200) =>
          LET i == req'.input.id.n
          IN /\ tasks'[i].payment_amount = tasks[i].payment_amount
             /\ tasks'[i].request_money = Nullish(tasks[i].request_money, Num(0))
             /\ tasks'[i].rejected = Nullish(tasks[i].rejected, Num(0))
             /\ tasks'[i].completed_by = tasks[i].completed_by
             /\ tasks'[i].completed_at = tasks[i].completed_at
             /\ tasks[i].completed = 1 => tasks'[i].completed = 1]_vars

\* C30: on a database whose tasks table has the columns openDb creates, the
\* upsert statement names no other column, and a schema-valid upsertTask is
\* answered ok and its row is stored.
C30_FreshStoreTakesTasks ==
    [][(req'.op = "upsertTask" /\ taskColumns = OpenDbTaskColumns /\ TaskSchemaOk(req'.input)) =>
          /\ UpsertTaskColumns \subseteq taskColumns
          /\ res'.status = 200
          /\ req'.input.id.n \in DOMAIN tasks']_vars

====
